---------------------------- MODULE Spec2Model ----------------------------
(***************************************************************************)
(* HyperDisk: the shard (hash table + search log + data segment) and the   *)
(* disk that supervises a vector of shards behind a write-ahead log.       *)
(* Modelled from src/hyperdisk/shard.cc and src/hyperdisk/disk.cc.         *)
(***************************************************************************)
EXTENDS Integers, Sequences, FiniteSets, TLC

(***************************************************************************)
(* Bounds.  The widths and table sizes of the program are scaled down; the *)
(* code is generic in them.                                                *)
(***************************************************************************)
\* width of a hash / mask word (32 in the program)
HashBits == 2
\* slots of the hash table of a shard
HASH_TABLE_ENTRIES == 4
\* entries of the search log of a shard
SEARCH_INDEX_ENTRIES == 4
\* 8-byte words of the data segment of a shard
DataWords == 2000
\* number of distinct keys and of distinct attribute strings
NumKeys == 3
NumAttrs == 2
\* copy_to calls in the life of the shard driven alone
MaxCopies == 1
\* put and del calls in the life of the shard driven alone
MaxShardOps == 5
\* WAL entries one flush call applies (100 in the program)
FlushLimit == 2
\* put and del calls on the disk
MaxOps == 4
\* put and del calls on the disk while a get runs beside the flusher
MaxGetOps == 2

Keys == 1..NumKeys
Attrs == 1..NumAttrs
\* a value of a disk of arity 2 is one attribute
Values == {<<a>> : a \in Attrs}

UINT32_MAX == 2^HashBits - 1
HASH_TABLE_SIZE == HASH_TABLE_ENTRIES * 8
SEARCH_INDEX_SIZE == SEARCH_INDEX_ENTRIES * 16
INDEX_SEGMENT_SIZE == HASH_TABLE_SIZE + SEARCH_INDEX_SIZE
DATA_SEGMENT_SIZE == DataWords * 8
FILE_SIZE == INDEX_SEGMENT_SIZE + DATA_SEGMENT_SIZE

Max(a, b) == IF a >= b THEN a ELSE b
Min(a, b) == IF a <= b THEN a ELSE b
\* (x + 7) & ~7
Align8(x) == ((x + 7) \div 8) * 8

\* F of x, with x computed once
With(x, F(_)) == CHOOSE out \in {F(v) : v \in {x}} : TRUE

(***************************************************************************)
(* Bit operations on HashBits-wide words.                                  *)
(***************************************************************************)
BitOf(x, b) == (x \div 2^b) % 2

RECURSIVE BitFold(_, _, _, _)
BitFold(Op(_, _), x, y, b) ==
    IF b = HashBits THEN 0
    ELSE 2^b * Op(BitOf(x, b), BitOf(y, b)) + BitFold(Op, x, y, b + 1)

AndBit(p, q) == p * q
OrBit(p, q) == IF p + q > 0 THEN 1 ELSE 0
XorBit(p, q) == (p + q) % 2
BitAnd(x, y) == BitFold(AndBit, x, y, 0)
BitOr(x, y) == BitFold(OrBit, x, y, 0)
BitXor(x, y) == BitFold(XorBit, x, y, 0)

(***************************************************************************)
(* Sizes and hashes of the byte strings.  The bytes themselves are         *)
(* abstract: a key or attribute is known by its identity and its size.     *)
(***************************************************************************)
KeySize(k) == 1
\* attribute 1 fills three quarters of a data segment, the others a quarter
\* and the attributes past NumAttrs a few bytes
AttrSize(a) == IF a = 1 THEN 11981 ELSE IF a = 2 THEN 3981 ELSE 5

\* CityHash64(key), truncated to the hash width.  Keys 1 and 2 collide.
KeyHash(k) == IF k \in {1, 2} THEN 3 % 2^HashBits ELSE (k - 3) % 2^HashBits
\* lower_interlace of the attribute hashes, truncated to the hash width
ValueHash(v) == IF Len(v) = 0 THEN 0 ELSE (2 * (v[1] - 1)) % 2^HashBits

(***************************************************************************)
(* Coordinates.                                                            *)
(***************************************************************************)
Coordinate(pm, ph, sm, sh) ==
    [primary_mask |-> pm, primary_hash |-> ph,
     secondary_mask |-> sm, secondary_hash |-> sh]

PrimaryContains(A, B) ==
    BitAnd(A.primary_mask, BitXor(A.primary_hash, B.primary_hash)) = 0
SecondaryContains(A, B) ==
    BitAnd(A.secondary_mask, BitXor(A.secondary_hash, B.secondary_hash)) = 0
Contains(A, B) == PrimaryContains(A, B) /\ SecondaryContains(A, B)
Intersects(A, B) ==
    /\ BitAnd(BitAnd(A.primary_mask, B.primary_mask),
              BitXor(A.primary_hash, B.primary_hash)) = 0
    /\ BitAnd(BitAnd(A.secondary_mask, B.secondary_mask),
              BitXor(A.secondary_hash, B.secondary_hash)) = 0

\* disk::get_coordinate(key): the lookup / delete coordinate
GetCoordinateKey(key) == Coordinate(UINT32_MAX, KeyHash(key), 0, 0)
\* disk::get_coordinate(key, value)
GetCoordinateKeyValue(key, value) ==
    Coordinate(UINT32_MAX, KeyHash(key), UINT32_MAX, ValueHash(value))

(***************************************************************************)
(* The shard.  A hash-table word (offset << 32) | hash is kept as its      *)
(* fields: hash, the low 31 bits of the offset, and bit 31 of the offset   *)
(* (HASH_OFFSET_INVALID).  A search-log entry is kept as its four 32-bit   *)
(* fields.  The data segment maps the offset of a record to the record.    *)
(***************************************************************************)
ZeroSlot == [hash |-> 0, offset |-> 0, invalid |-> FALSE]
ZeroEntry == [primary_hash |-> 0, secondary_hash |-> 0,
              data_offset |-> 0, invalidator |-> 0]
NoData == [o \in {} |-> 0]

\* shard::shard on a zero-filled file
NewShard ==
    [hash_table |-> [b \in 0..(HASH_TABLE_ENTRIES - 1) |-> ZeroSlot],
     search_log |-> [e \in 0..(SEARCH_INDEX_ENTRIES - 1) |-> ZeroEntry],
     data |-> NoData,
     m_data_offset |-> INDEX_SEGMENT_SIZE,
     m_search_offset |-> 0]

HASH_INTO_TABLE(x) == x % HASH_TABLE_ENTRIES

RECURSIVE SumAttrSizes(_, _)
SumAttrSizes(value, i) ==
    IF i > Len(value) THEN 0 ELSE AttrSize(value[i]) + SumAttrSizes(value, i + 1)

\* shard::data_size
DataSize(key, value) ==
    8 + 4 + 2 + KeySize(key) + 4 * Len(value) + SumAttrSizes(value, 1)

\* data_key_size / memcmp of hash_lookup: does the record at offset hold key?
\* Offset 0 (an untouched slot probed with primary_hash 0) reads hash-table
\* bytes as a record; a match there returns the same zero word as the
\* empty-slot exit below it, so it is modelled as no match.
KeyMatches(s, offset, key) ==
    offset \in DOMAIN s.data /\ s.data[offset].key = key

\* a slot whose offset field (all 32 bits) is zero
SlotOffsetZero(slot) == slot.offset = 0 /\ ~slot.invalid

RECURSIVE HashLookupFrom(_, _, _, _, _)
HashLookupFrom(s, primary_hash, key, start, off) ==
    IF off = HASH_TABLE_ENTRIES
    THEN [entry |-> HASH_TABLE_ENTRIES, value |-> ZeroSlot, wrapped |-> TRUE]
    ELSE LET bucket == HASH_INTO_TABLE(start + off)
             this_entry == s.hash_table[bucket]
         IN IF this_entry.hash = primary_hash
               /\ KeyMatches(s, this_entry.offset, key)
            THEN [entry |-> bucket, value |-> this_entry, wrapped |-> FALSE]
            ELSE IF SlotOffsetZero(this_entry)
            THEN [entry |-> bucket, value |-> this_entry, wrapped |-> FALSE]
            ELSE HashLookupFrom(s, primary_hash, key, start, off + 1)

\* shard::hash_lookup(primary_hash, key, &entry, &value)
HashLookup(s, primary_hash, key) ==
    HashLookupFrom(s, primary_hash, key, HASH_INTO_TABLE(primary_hash), 0)

RECURSIVE HashLookupFreeFrom(_, _, _)
HashLookupFreeFrom(s, start, off) ==
    IF off = HASH_TABLE_ENTRIES THEN HASH_TABLE_ENTRIES
    ELSE LET bucket == HASH_INTO_TABLE(start + off)
         IN IF SlotOffsetZero(s.hash_table[bucket]) THEN bucket
            ELSE HashLookupFreeFrom(s, start, off + 1)

\* shard::hash_lookup(primary_hash, &entry)
HashLookupFree(s, primary_hash) ==
    HashLookupFreeFrom(s, HASH_INTO_TABLE(primary_hash), 0)

NotFound == [rc |-> "NOTFOUND", value |-> <<>>, version |-> 0]
Found(value, version) == [rc |-> "SUCCESS", value |-> value, version |-> version]

\* a call that ran into assert(false) at the end of hash_lookup: the process
\* aborts, or without assertions goes on with outputs that were never set
Aborted == [rc |-> "ABORT", value |-> <<>>, version |-> 0]

\* shard::get
ShardGet(s, primary_hash, key) ==
    LET look == HashLookup(s, primary_hash, key)
        table_value == look.value
    IN IF look.wrapped THEN Aborted
       ELSE IF SlotOffsetZero(table_value) \/ table_value.invalid
       THEN NotFound
       ELSE Found(s.data[table_value.offset].value,
                  s.data[table_value.offset].version)

\* the word read by invalidate_search_log at index mid; index
\* SEARCH_INDEX_ENTRIES is one past the log: the key_size field of the first
\* record of the data segment
SearchLogOffsetAt(s, mid) ==
    IF mid < SEARCH_INDEX_ENTRIES THEN s.search_log[mid].data_offset
    ELSE IF INDEX_SEGMENT_SIZE \in DOMAIN s.data
         THEN KeySize(s.data[INDEX_SEGMENT_SIZE].key) ELSE 0

RECURSIVE InvalidateFrom(_, _, _, _, _)
InvalidateFrom(s, to_invalidate, invalidate_with, low, high) ==
    IF low > high THEN s
    ELSE LET mid == low + ((high - low) \div 2)
             mid_offset == SearchLogOffsetAt(s, mid)
         IN IF mid_offset = 0 \/ mid_offset > to_invalidate
            THEN InvalidateFrom(s, to_invalidate, invalidate_with, low, mid - 1)
            ELSE IF mid_offset < to_invalidate
            THEN InvalidateFrom(s, to_invalidate, invalidate_with, mid + 1, high)
            ELSE IF mid < SEARCH_INDEX_ENTRIES
            THEN [s EXCEPT !.search_log[mid].invalidator = invalidate_with]
            ELSE s

\* shard::invalidate_search_log.  InvalidateSearchLogNone leaves the entry of
\* the old record live.
InvalidateSearchLogNone(s, to_invalidate, invalidate_with) == s
InvalidateSearchLog(s, to_invalidate, invalidate_with) ==
    InvalidateFrom(s, to_invalidate, invalidate_with, 0, SEARCH_INDEX_ENTRIES)

\* shard::put, "Update the offsets": the data offset after a record that ends
\* at curr_offset.  PutDataOffsetKept leaves m_data_offset where the record
\* started.
PutDataOffsetKept(s, curr_offset) == s.m_data_offset
PutDataOffset(s, curr_offset) == Align8(curr_offset)

\* shard::put, the two capacity tests in their order.  PutFullSearchFirst
\* tests the search log first.
PutFullSearchFirst(s, key, value) ==
    IF s.m_search_offset = SEARCH_INDEX_ENTRIES THEN "SEARCHFULL"
    ELSE IF DataSize(key, value) + s.m_data_offset > FILE_SIZE THEN "DATAFULL"
    ELSE "SUCCESS"
PutFull(s, key, value) ==
    IF DataSize(key, value) + s.m_data_offset > FILE_SIZE THEN "DATAFULL"
    ELSE IF s.m_search_offset = SEARCH_INDEX_ENTRIES THEN "SEARCHFULL"
    ELSE "SUCCESS"

\* shard::put, "Invalidate anything pointing to the old version": the test
\* table_offset < HASH_OFFSET_INVALID.  PutInvalidatesNever skips the call.
PutInvalidatesNever(table_value) == FALSE
PutInvalidates(table_value) == ~table_value.invalid

\* shard::put: the return code and the shard afterwards
ShardPut(s, primary_hash, secondary_hash, key, value, version) ==
    IF PutFull(s, key, value) # "SUCCESS"
    THEN [rc |-> PutFull(s, key, value), shard |-> s]
    ELSE
    LET look == HashLookup(s, primary_hash, key)
        table_value == look.value
        curr_offset == s.m_data_offset + DataSize(key, value)
        packed == [s EXCEPT !.data = (s.m_data_offset :>
                       [version |-> version, key |-> key, value |-> value]) @@ @]
        invalidated ==
            IF PutInvalidates(table_value)
            THEN InvalidateSearchLog(packed, table_value.offset, s.m_data_offset)
            ELSE packed
        new_data_offset == PutDataOffset(s, curr_offset)
    IN IF look.wrapped THEN [rc |-> "ABORT", shard |-> s]
       ELSE [rc |-> "SUCCESS",
             shard |-> [invalidated EXCEPT
                 !.search_log[s.m_search_offset] =
                     [primary_hash |-> primary_hash,
                      secondary_hash |-> secondary_hash,
                      data_offset |-> s.m_data_offset, invalidator |-> 0],
                 !.hash_table[look.entry] =
                     [hash |-> primary_hash, offset |-> s.m_data_offset,
                      invalid |-> FALSE],
                 !.m_search_offset = s.m_search_offset + 1,
                 !.m_data_offset = new_data_offset]]

\* shard::del: the word written over the slot of a deleted key: the old offset
\* with HASH_OFFSET_INVALID set, and the hash kept.  DelSlotWordCleared frees
\* the slot instead; DelSlotWordKept leaves HASH_OFFSET_INVALID unset.
DelSlotWordCleared(primary_hash, table_offset) == ZeroSlot
DelSlotWordKept(primary_hash, table_offset) ==
    [hash |-> primary_hash, offset |-> table_offset, invalid |-> FALSE]
DelSlotWord(primary_hash, table_offset) ==
    [hash |-> primary_hash, offset |-> table_offset, invalid |-> TRUE]

\* shard::del, the test for the 8 bytes a delete consumes.  DelFullNever lets
\* every delete through.
DelFullNever(s) == FALSE
DelFull(s) == s.m_data_offset + 8 > FILE_SIZE

\* shard::del: the return code and the shard afterwards
ShardDel(s, primary_hash, key) ==
    LET look == HashLookup(s, primary_hash, key)
        table_value == look.value
    IN IF look.wrapped THEN [rc |-> "ABORT", shard |-> s]
       ELSE IF SlotOffsetZero(table_value) \/ table_value.invalid
       THEN [rc |-> "NOTFOUND", shard |-> s]
       ELSE IF DelFull(s)
       THEN [rc |-> "DATAFULL", shard |-> s]
       ELSE [rc |-> "SUCCESS",
             shard |-> [InvalidateSearchLog(s, table_value.offset, s.m_data_offset)
                 EXCEPT !.m_data_offset = s.m_data_offset + 8,
                        !.hash_table[look.entry] =
                            DelSlotWord(primary_hash, table_value.offset)]]


RECURSIVE StaleLoop(_, _, _, _, _)
StaleLoop(s, i, start, stale_data, stale_num) ==
    LET Finish(end) ==
            [stale_data |-> stale_data + (end - start),
             stale_num |-> stale_num + (IF end - start # 0 THEN 1 ELSE 0)]
    IN IF i >= SEARCH_INDEX_ENTRIES THEN Finish(s.m_data_offset)
       ELSE LET end == s.search_log[i].data_offset
            IN IF end = 0 THEN Finish(s.m_data_offset)
               ELSE IF s.search_log[i].invalidator > 0
               THEN StaleLoop(s, i + 1, end, stale_data + (end - start), stale_num + 1)
               ELSE StaleLoop(s, i + 1, end, stale_data, stale_num)

\* shard::stale_space: the loop starts at entry 1 and tests the invalidator of
\* entry i against the bytes between entries i-1 and i; the bytes after the
\* last entry are always added
StaleSpace(s) ==
    LET r == StaleLoop(s, 1, s.search_log[0].data_offset, 0, 0)
    IN Max((100 * r.stale_data) \div DATA_SEGMENT_SIZE,
           (100 * r.stale_num) \div SEARCH_INDEX_ENTRIES)

\* shard::used_space
UsedSpace(s) ==
    Max((100 * (s.m_data_offset - INDEX_SEGMENT_SIZE)) \div DATA_SEGMENT_SIZE,
        (100 * s.m_search_offset) \div SEARCH_INDEX_ENTRIES)

\* shard::copy_to, "Skip stale entries".  EntryIsStaleNever copies them too.
EntryIsStaleNever(e) == FALSE
EntryIsStale(e) == e.invalidator # 0

RECURSIVE CopyLoop(_, _, _, _)
CopyLoop(src, c, dst, ent) ==
    IF ent >= SEARCH_INDEX_ENTRIES THEN dst
    ELSE
    LET e == src.search_log[ent]
        entry_start == e.data_offset
        next_word_set ==
            /\ ent < SEARCH_INDEX_ENTRIES - 1
            /\ \/ src.search_log[ent + 1].data_offset # 0
               \/ src.search_log[ent + 1].invalidator # 0
        entry_end == IF next_word_set THEN src.search_log[ent + 1].data_offset
                     ELSE src.m_data_offset
        bucket == HashLookupFree(dst, e.primary_hash)
        copied ==
            [dst EXCEPT
                !.data = (dst.m_data_offset :> src.data[entry_start]) @@ @,
                !.search_log[dst.m_search_offset] =
                    [primary_hash |-> e.primary_hash,
                     secondary_hash |-> e.secondary_hash,
                     data_offset |-> dst.m_data_offset, invalidator |-> 0],
                !.hash_table[bucket] =
                    [hash |-> e.primary_hash, offset |-> dst.m_data_offset,
                     invalid |-> FALSE],
                !.m_search_offset = dst.m_search_offset + 1,
                !.m_data_offset =
                    Align8(dst.m_data_offset + (entry_end - entry_start))]
    IN IF EntryIsStale(e) THEN CopyLoop(src, c, dst, ent + 1)
       ELSE IF ~Intersects(c, Coordinate(UINT32_MAX, e.primary_hash,
                                         UINT32_MAX, e.secondary_hash))
       THEN CopyLoop(src, c, dst, ent + 1)
       ELSE IF entry_start = 0 THEN dst
       ELSE CopyLoop(src, c, copied, ent + 1)

\* shard::copy_to(c, s), s a zero-filled shard: the contents of s afterwards
CopyTo(src, c) == CopyLoop(src, c, NewShard, 0)

(***************************************************************************)
(* What a shard holds.                                                     *)
(***************************************************************************)
\* the search-log entries in use that are live
LiveEntries(s) ==
    {e \in 0..(SEARCH_INDEX_ENTRIES - 1) :
        s.search_log[e].data_offset # 0 /\ s.search_log[e].invalidator = 0}

\* the live records: hashes, key, value, version
LiveRecords(s) ==
    {[primary_hash |-> s.search_log[e].primary_hash,
      secondary_hash |-> s.search_log[e].secondary_hash,
      key |-> s.data[s.search_log[e].data_offset].key,
      value |-> s.data[s.search_log[e].data_offset].value,
      version |-> s.data[s.search_log[e].data_offset].version] : e \in LiveEntries(s)}

\* the (primary_hash, key) pair a hash-table slot is assigned to, <<>> if none
SlotOwner(s, b) ==
    LET slot == s.hash_table[b]
    IN IF slot.offset = 0 THEN <<>>
       ELSE <<slot.hash, s.data[slot.offset].key>>

\* all hash/mask words, and the regions a coordinate can describe
Words == 0..UINT32_MAX
Regions ==
    {Coordinate(pm, BitAnd(ph, pm), sm, BitAnd(sh, sm)) :
        pm \in Words, ph \in Words, sm \in Words, sh \in Words}
\* the whole space and its quarters on the top bit of each hash
TopBit == 2^(HashBits - 1)
CopyRegions ==
    {Coordinate(0, 0, 0, 0)} \cup
    {Coordinate(TopBit, ph, TopBit, sh) : ph \in {0, TopBit}, sh \in {0, TopBit}}

(***************************************************************************)
(* The disk: a vector of (coordinate, shard) pairs and the write-ahead     *)
(* log.  A log entry is a put (secondary_mask == UINT32_MAX) or a delete   *)
(* (secondary_mask == 0).                                                  *)
(***************************************************************************)
INT32_MAX == 2147483647
STALE_LIMIT == 30

\* log_entry(coord, key, value, version) and log_entry(coord, key)
PutEntry(key, value, version) ==
    [coord |-> GetCoordinateKeyValue(key, value), key |-> key,
     value |-> value, version |-> version]
DelEntry(key) ==
    [coord |-> GetCoordinateKey(key), key |-> key, value |-> <<>>, version |-> 0]

\* disk::disk: one shard that holds everything
InitialShards == <<[coord |-> Coordinate(0, 0, 0, 0), shard |-> NewShard]>>

\* shard_vector::replace(i, shard)
ReplaceOne(shards, i, newshard) == [shards EXCEPT ![i].shard = newshard]

\* shard_vector::replace(i, c1, s1, c2, s2, c3, s3, c4, s4): slot i removed,
\* the four new pairs appended
ReplaceFour(shards, i, four) ==
    SubSeq(shards, 1, i - 1) \o SubSeq(shards, i + 1, Len(shards)) \o four

RECURSIVE ShardWalk(_, _, _, _, _)
\* disk::get, the walk over the shards from index i on
ShardWalk(shards, coord, key, i, shard_res) ==
    IF i > Len(shards) THEN shard_res
    ELSE IF ~PrimaryContains(shards[i].coord, coord)
    THEN ShardWalk(shards, coord, key, i + 1, shard_res)
    ELSE LET res == ShardGet(shards[i].shard, coord.primary_hash, key)
         IN IF res.rc = "SUCCESS" THEN res
            ELSE ShardWalk(shards, coord, key, i + 1, res)

\* disk::get, the body of the loop over the WAL cursor for a matching entry:
\* found and wal_res are overwritten.  WalTakeFirst keeps the first match.
WalTakeFirst(acc, it) ==
    IF acc.found THEN acc
    ELSE [found |-> TRUE,
          wal_res |-> IF it.coord.secondary_mask = UINT32_MAX
                      THEN Found(it.value, it.version) ELSE NotFound]
WalTake(acc, it) ==
    [found |-> TRUE,
     wal_res |-> IF it.coord.secondary_mask = UINT32_MAX
                 THEN Found(it.value, it.version) ELSE NotFound]

RECURSIVE WalDrain(_, _, _, _, _)
\* disk::get, the loop over the WAL cursor: found and wal_res
WalDrain(entries, coord, key, i, acc) ==
    IF i > Len(entries) THEN acc
    ELSE LET it == entries[i]
         IN IF PrimaryContains(it.coord, coord) /\ it.key = key
            THEN WalDrain(entries, coord, key, i + 1, WalTake(acc, it))
            ELSE WalDrain(entries, coord, key, i + 1, acc)

\* disk::get, the last lines: the WAL result if any entry matched.
\* GetResultShardFirst prefers the shards.
GetResultShardFirst(shard_res, wal) ==
    IF shard_res.rc = "SUCCESS" THEN shard_res
    ELSE IF wal.found THEN wal.wal_res ELSE shard_res
GetResult(shard_res, wal) ==
    IF wal.found THEN wal.wal_res ELSE shard_res

\* disk::get with nothing running beside it
DiskGet(shards, log, key) ==
    LET coord == GetCoordinateKey(key)
    IN GetResult(ShardWalk(shards, coord, key, 1, NotFound),
                 WalDrain(log, coord, key, 1,
                          [found |-> FALSE, wal_res |-> NotFound]))

\* disk::clean_shard: the vector it publishes
CleanShard(shards, shard_num) ==
    ReplaceOne(shards, shard_num,
               CopyTo(shards[shard_num].shard, shards[shard_num].coord))

RECURSIVE WhichLoop(_, _, _, _, _, _, _)
\* which_to_split, the loop over the bits i of a word of the given width
WhichLoop(width, mask, zeros, ones, i, pos, diff) ==
    IF i >= width THEN pos
    ELSE IF BitOf(mask, i) = 0
    THEN LET d == ones[i] - zeros[i]
             tmpdiff == IF d < 0 THEN -d ELSE d
         IN IF tmpdiff < diff
            THEN WhichLoop(width, mask, zeros, ones, i + 1, i, tmpdiff)
            ELSE WhichLoop(width, mask, zeros, ones, i + 1, pos, diff)
    ELSE WhichLoop(width, mask, zeros, ones, i + 1, pos, diff)

\* which_to_split on words of the given width (32 in the program)
WhichToSplitIn(width, mask, zeros, ones) ==
    WhichLoop(width, mask, zeros, ones, 1, 0, INT32_MAX)

\* which_to_split on the words of the disk.  WhichToSplitZero returns its
\* initial pos whatever the mask.
WhichToSplitZero(mask, zeros, ones) == 0
WhichToSplit(mask, zeros, ones) == WhichToSplitIn(HashBits, mask, zeros, ones)

\* the counting loops of split_shard: for every bit j not set in mask, the
\* number of the entries whose hash has bit j equal to bit
BitCounts(mask, s, entries, field, bit) ==
    [j \in 0..(HashBits - 1) |->
        IF BitOf(mask, j) = 1 THEN 0
        ELSE Cardinality({e \in entries :
                 BitOf(IF field = "secondary" THEN s.search_log[e].secondary_hash
                       ELSE s.search_log[e].primary_hash, j) = bit})]

\* split_shard: the four coordinates, in the order zero_zero, zero_one,
\* one_zero, one_one.  SplitCoordinatesSameHash forgets to set the new hash
\* bit of the one_* halves.
SplitCoordinatesSameHash(c, secondary_bit, primary_lower_bit, primary_upper_bit) ==
    <<Coordinate(BitOr(c.primary_mask, primary_lower_bit), c.primary_hash,
                 BitOr(c.secondary_mask, secondary_bit), c.secondary_hash),
      Coordinate(BitOr(c.primary_mask, primary_upper_bit), c.primary_hash,
                 BitOr(c.secondary_mask, secondary_bit),
                 BitOr(c.secondary_hash, secondary_bit)),
      Coordinate(BitOr(c.primary_mask, primary_lower_bit), c.primary_hash,
                 BitOr(c.secondary_mask, secondary_bit), c.secondary_hash),
      Coordinate(BitOr(c.primary_mask, primary_upper_bit), c.primary_hash,
                 BitOr(c.secondary_mask, secondary_bit),
                 BitOr(c.secondary_hash, secondary_bit))>>
SplitCoordinates(c, secondary_bit, primary_lower_bit, primary_upper_bit) ==
    <<Coordinate(BitOr(c.primary_mask, primary_lower_bit), c.primary_hash,
                 BitOr(c.secondary_mask, secondary_bit), c.secondary_hash),
      Coordinate(BitOr(c.primary_mask, primary_upper_bit), c.primary_hash,
                 BitOr(c.secondary_mask, secondary_bit),
                 BitOr(c.secondary_hash, secondary_bit)),
      Coordinate(BitOr(c.primary_mask, primary_lower_bit),
                 BitOr(c.primary_hash, primary_lower_bit),
                 BitOr(c.secondary_mask, secondary_bit), c.secondary_hash),
      Coordinate(BitOr(c.primary_mask, primary_upper_bit),
                 BitOr(c.primary_hash, primary_upper_bit),
                 BitOr(c.secondary_mask, secondary_bit),
                 BitOr(c.secondary_hash, secondary_bit))>>

\* split_shard: the four (coordinate, shard) pairs it creates
SplitChildren(c, s) ==
    LET live == LiveEntries(s)
        secondary_split ==
            WhichToSplit(c.secondary_mask,
                         BitCounts(c.secondary_mask, s, live, "secondary", 0),
                         BitCounts(c.secondary_mask, s, live, "secondary", 1))
        secondary_bit == 2^secondary_split
        upper == {e \in live : BitOf(s.search_log[e].secondary_hash,
                                     secondary_split) = 1}
        lower == live \ upper
        primary_lower_split ==
            WhichToSplit(c.primary_mask,
                         BitCounts(c.primary_mask, s, lower, "primary", 0),
                         BitCounts(c.primary_mask, s, lower, "primary", 1))
        primary_upper_split ==
            WhichToSplit(c.primary_mask,
                         BitCounts(c.primary_mask, s, upper, "primary", 0),
                         BitCounts(c.primary_mask, s, upper, "primary", 1))
        coords == SplitCoordinates(c, secondary_bit, 2^primary_lower_split,
                                   2^primary_upper_split)
    IN [n \in 1..4 |-> [coord |-> coords[n], shard |-> CopyTo(s, coords[n])]]

\* disk::split_shard: the vector it publishes
SplitShard(shards, shard_num) ==
    ReplaceFour(shards, shard_num,
                SplitChildren(shards[shard_num].coord, shards[shard_num].shard))

\* disk::deal_with_full_shard, the test before "return SPLITFAILED".
\* SplitImpossibleNever sends every shard that is not cleaned to split_shard.
SplitImpossibleNever(c) == FALSE
SplitImpossible(c) ==
    c.primary_mask = UINT32_MAX \/ c.secondary_mask = UINT32_MAX

\* disk::deal_with_full_shard, the branch taken for the coordinate c of the
\* shard and the value stale of its stale_space()
DealDecision(c, stale) ==
    IF stale >= STALE_LIMIT THEN "clean"
    ELSE IF SplitImpossible(c) THEN "fail"
    ELSE "split"

\* disk::deal_with_full_shard: what it does, the return code and the vector
DealWithFullShard(shards, shard_num) ==
    With(DealDecision(shards[shard_num].coord,
                      StaleSpace(shards[shard_num].shard)),
         LAMBDA d :
            IF d = "clean"
            THEN [did |-> "clean", rc |-> "SUCCESS",
                  shards |-> CleanShard(shards, shard_num)]
            ELSE IF d = "fail"
            THEN [did |-> "none", rc |-> "SPLITFAILED", shards |-> shards]
            ELSE [did |-> "split", rc |-> "SUCCESS",
                  shards |-> SplitShard(shards, shard_num)])

(***************************************************************************)
(* disk::flush as a machine.  f is the flusher: its position pc, the count *)
(* n of the outer loop, the index j of an inner loop, and the flags of the *)
(* inner loops.  One step is one iteration of a loop.  What the call did   *)
(* is kept with it: the return code rc, whether a record went to another   *)
(* shard than the one it was deleted from (moved), and what                *)
(* deal_with_full_shard did (did) to which shard (at) of which vector      *)
(* (before).  A step also tells the calls it made (call): shard del, shard *)
(* put, deal_with_full_shard, remove_oldest, with the shard index and the  *)
(* WAL entry.                                                              *)
(***************************************************************************)
\* a call made by flush for WAL entry e on the shard at index at
FlushCalled(op, at, e) == [op |-> op, at |-> at, entry |-> e]

IdleFlusher ==
    [pc |-> "idle", n |-> 0, j |-> 0, deleted |-> FALSE, inserted |-> FALSE,
     del_at |-> 0, moved |-> FALSE, rc |-> "SUCCESS", did |-> "none", at |-> 0,
     before |-> <<>>]

\* the flusher after trylock succeeded
StartedFlusher == [IdleFlusher EXCEPT !.pc = "loop"]

\* flush returns rc
FlushReturn(f, rc) == [f EXCEPT !.pc = "idle", !.rc = rc]

\* flush, "return deal_with_full_shard(i)"
FlushDeal(shards, log, f, shard_num) ==
    With(DealWithFullShard(shards, shard_num),
         LAMBDA r :
            [shards |-> r.shards, log |-> log,
             f |-> [FlushReturn(f, r.rc) EXCEPT !.did = r.did, !.at = shard_num,
                                                !.before = shards],
             visible |-> TRUE,
             call |-> <<FlushCalled("deal", shard_num, Head(log))>>])

\* flush, the head of the outer loop
FlushLoopHead(log, f) ==
    IF f.n < FlushLimit /\ log # <<>>
    THEN [f EXCEPT !.pc = "del", !.j = 1, !.deleted = FALSE, !.inserted = FALSE,
                   !.del_at = 0]
    ELSE FlushReturn(f, "SUCCESS")

\* flush, the test between the delete loop and the put loop: is the entry a
\* put?  EntryIsPutAlways sends delete entries into the put loop too.
EntryIsPutAlways(e) == TRUE
EntryIsPut(e) == e.coord.secondary_mask = UINT32_MAX

\* flush, one iteration of the delete loop
FlushDelIter(shards, log, f) ==
    LET e == Head(log)
        j == f.j
    IN IF ~f.deleted /\ j <= Len(shards)
       THEN IF ~PrimaryContains(shards[j].coord, e.coord)
            THEN [shards |-> shards, log |-> log, f |-> [f EXCEPT !.j = j + 1],
                  visible |-> FALSE, call |-> <<>>]
            ELSE With(ShardDel(shards[j].shard, e.coord.primary_hash, e.key),
                      LAMBDA r :
                    IF r.rc = "SUCCESS"
                    THEN [shards |-> [shards EXCEPT ![j].shard = r.shard],
                          log |-> log,
                          f |-> [f EXCEPT !.deleted = TRUE, !.del_at = j, !.j = j + 1],
                          visible |-> TRUE, call |-> <<FlushCalled("del", j, e)>>]
                    ELSE IF r.rc = "NOTFOUND"
                    THEN [shards |-> shards, log |-> log,
                          f |-> [f EXCEPT !.j = j + 1], visible |-> FALSE,
                          call |-> <<FlushCalled("del", j, e)>>]
                    ELSE [FlushDeal(shards, log, f, j) EXCEPT
                              !.call = <<FlushCalled("del", j, e)>> \o @])
       ELSE [shards |-> shards, log |-> log,
             f |-> IF EntryIsPut(e)
                   THEN [f EXCEPT !.pc = "put", !.j = Len(shards), !.inserted = FALSE]
                   ELSE [f EXCEPT !.pc = "remove"],
             visible |-> FALSE, call |-> <<>>]

\* flush, the test of the put loop: does the shard at c take the entry at e?
\* PutLoopContainsSecondary tests the secondary hash alone.
PutLoopContainsSecondary(c, e) == SecondaryContains(c, e)
PutLoopContains(c, e) == Contains(c, e)

\* flush, one iteration of the put loop
FlushPutIter(shards, log, f) ==
    LET e == Head(log)
        j == f.j
    IN IF ~f.inserted /\ j >= 1
       THEN IF ~PutLoopContains(shards[j].coord, e.coord)
            THEN [shards |-> shards, log |-> log, f |-> [f EXCEPT !.j = j - 1],
                  visible |-> FALSE, call |-> <<>>]
            ELSE With(ShardPut(shards[j].shard, e.coord.primary_hash,
                               e.coord.secondary_hash, e.key, e.value, e.version),
                      LAMBDA r :
                    IF r.rc = "SUCCESS"
                    THEN [shards |-> [shards EXCEPT ![j].shard = r.shard],
                          log |-> log,
                          f |-> [f EXCEPT !.inserted = TRUE, !.j = j - 1,
                                          !.moved = @ \/ (f.del_at \notin {0, j})],
                          visible |-> TRUE, call |-> <<FlushCalled("put", j, e)>>]
                    ELSE [FlushDeal(shards, log, f, j) EXCEPT
                              !.call = <<FlushCalled("put", j, e)>> \o @])
       ELSE [shards |-> shards, log |-> log, f |-> [f EXCEPT !.pc = "remove"],
             visible |-> FALSE, call |-> <<>>]

\* flush, m_log.remove_oldest() and the step of the outer loop
FlushRemove(shards, log, f) ==
    [shards |-> shards, log |-> Tail(log),
     f |-> [f EXCEPT !.pc = "loop", !.n = f.n + 1], visible |-> TRUE,
     call |-> <<FlushCalled("remove", 0, Head(log))>>]

\* one step of flush
FlushStep(shards, log, f) ==
    IF f.pc = "loop"
    THEN With(FlushLoopHead(log, f),
              LAMBDA h : [shards |-> shards, log |-> log, f |-> h,
                          visible |-> h.pc = "idle", call |-> <<>>])
    ELSE IF f.pc = "del" THEN FlushDelIter(shards, log, f)
    ELSE IF f.pc = "put" THEN FlushPutIter(shards, log, f)
    ELSE FlushRemove(shards, log, f)

RECURSIVE FlushRun(_)
\* flush from the state r of shards, log and flusher until it returns, with
\* the calls made on the way
FlushRun(r) ==
    IF r.f.pc = "idle" THEN r
    ELSE With(FlushStep(r.shards, r.log, r.f),
              LAMBDA next : FlushRun([next EXCEPT !.call = r.call \o @]))

\* disk::flush, the whole call
Flush(shards, log) ==
    FlushRun([shards |-> shards, log |-> log, f |-> StartedFlusher,
              visible |-> FALSE, call |-> <<>>])

(***************************************************************************)
(* State.                                                                  *)
(***************************************************************************)
VARIABLES
    shard,      \* one shard driven directly through put / del / copy_to
    shard_op,   \* the last operation on it and its return code
    m_shards,   \* disk::m_shards: the published vector of (coord, shard)
    m_log,      \* disk::m_log: the write-ahead log, oldest entry first
    f,          \* the thread inside disk::flush
    g,          \* the thread inside disk::get
    written,    \* per key: the last put / del the disk accepted, and the one before
    last_call,  \* the last call on the disk that returned
    nops,       \* put and del calls so far
    th,         \* per thread: the call on the disk it is in and its position
    mtx,        \* the holder of each of the disk's mutexes, 0 when free
    writer,     \* the thread inside shard::put or shard::del, store by store
    reader,     \* the thread inside shard::get, load by load
    files,      \* the files in the directory of the disk
    dir_exists, \* is the directory of the disk there?
    m_spare_shards,         \* disk::m_spare_shards: the numbers of the spare files
    m_spare_shard_counter,  \* disk::m_spare_shard_counter
    which,      \* the last call of which_to_split: its arguments and its result
    prep        \* the last call of atomic_group_request::prepare, likewise

shardVars == <<shard, shard_op>>
diskVars == <<m_shards, m_log, f, g, written, last_call, nops>>
lockVars == <<th, mtx>>
raceVars == <<writer, reader>>
dirVars == <<files, dir_exists, m_spare_shards, m_spare_shard_counter>>
callVars == <<which, prep>>
otherVars == <<lockVars, raceVars, dirVars, callVars>>
vars == <<shard, shard_op, m_shards, m_log, f, g, written, last_call, nops,
          th, mtx, writer, reader,
          files, dir_exists, m_spare_shards, m_spare_shard_counter, which, prep>>

NeverWritten ==
    [op |-> "none", value |-> <<>>, version |-> 0,
     prev_op |-> "none", prev_value |-> <<>>, prev_in_wal |-> FALSE]

\* the thread of disk::get before a call: its position pc, the key, the
\* vector snapshot snap and the index i into it, shard_res, the entries the
\* WAL cursor holds that the flusher has removed (retained), and the result.
\* What the caller knows is kept with it: the last operation on the key when
\* the call started (expect), whether the key was written since (dirty),
\* whether the result came from the WAL (from_wal), and what the flusher
\* published since the call started (published).
IdleReader ==
    [pc |-> "idle", key |-> 0, snap |-> <<>>, i |-> 0, shard_res |-> NotFound,
     retained |-> <<>>, result |-> NotFound, expect |-> NeverWritten,
     dirty |-> FALSE, from_wal |-> FALSE, published |-> "none"]

\* disk::disk, with no shard driven alone
InitDiskVars ==
    /\ m_shards = InitialShards
    /\ m_log = <<>>
    /\ f = IdleFlusher
    /\ g = IdleReader
    /\ written = [k \in Keys |-> NeverWritten]
    /\ last_call = [op |-> "new", key |-> 0, rc |-> "SUCCESS",
                    did |-> "none", moved |-> FALSE, at |-> 0, before |-> <<>>]
    /\ nops = 0

\* the shard driven alone, not in use
InitShardVars ==
    /\ shard = NewShard
    /\ shard_op = [op |-> "create", rc |-> "SUCCESS", calls |-> 0, copies |-> 0]

\* the threads that call the disk concurrently
NumThreads == 3
Threads == 1..NumThreads

\* a thread outside every call; busy records that its last flush found
\* m_shards_mutate taken, removed the remove_oldest calls of its last flush
IdleThread == [op |-> "none", pc |-> "idle", busy |-> FALSE, removed |-> 0]

\* which_to_split before a call of it
NotCalled == [mask |-> 0, zeros |-> <<>>, ones |-> <<>>, pos |-> -1]

\* no call of atomic_group_request::prepare yet
NotPrepared ==
    [called |-> FALSE, selection_sz |-> 0, attrs_sz |-> 0, mapattrs_sz |-> 0,
     group |-> 0, attrs_idx |-> 0, mapattrs_idx |-> 0, thrown |-> "none",
     ret |-> 0, status |-> "SUCCESS"]

\* disk::disk leaves m_shards_mutate, m_shards_lock and m_spare_shards_lock
\* free
FreeLocks ==
    [m_shards_mutate |-> 0, m_shards_lock |-> 0, m_spare_shards_lock |-> 0]

\* the writer of a shard before its call: the operation and its arguments,
\* what hash_lookup returned (entry, table_value), m_data_offset at the call
\* (offset), the index of the next store (step), and the shard before the
\* call and after it
IdleWriter ==
    [pc |-> "idle", op |-> "none", key |-> 0, value |-> <<>>, version |-> 0,
     entry |-> 0, table_value |-> ZeroSlot, offset |-> 0, step |-> 0,
     before |-> NewShard, after |-> NewShard]

\* the reader of a shard before its call: the key, the probe offset off, the
\* word loaded from the slot (this_entry), table_value, the version loaded,
\* the result, and the writer's position when the slot was loaded
IdleShardReader ==
    [pc |-> "idle", key |-> 0, off |-> 0, this_entry |-> ZeroSlot,
     table_value |-> ZeroSlot, version |-> 0, result |-> NotFound,
     slot_at |-> 0]

\* the names of the files of the directory: shard_filename(c),
\* shard_tmp_filename(c) and "spare-N"
ShardFile(c) == [kind |-> "shard", coord |-> c, n |-> 0]
TmpFile(c) == [kind |-> "tmp", coord |-> c, n |-> 0]
SpareFile(n) == [kind |-> "spare", coord |-> Coordinate(0, 0, 0, 0), n |-> n]

\* no thread in a call; the directory holds the file of the first shard
InitOtherVars ==
    /\ th = [t \in Threads |-> IdleThread]
    /\ mtx = FreeLocks
    /\ writer = IdleWriter
    /\ reader = IdleShardReader
    /\ files = {ShardFile(Coordinate(0, 0, 0, 0))}
    /\ dir_exists = TRUE
    /\ m_spare_shards = <<>>
    /\ m_spare_shard_counter = 0
    /\ which = NotCalled
    /\ prep = NotPrepared

(***************************************************************************)
(* One shard under put, del and copy_to.                                   *)
(***************************************************************************)
InitShard == InitShardVars /\ InitDiskVars /\ InitOtherVars

ShardPutStep(key, value, version) ==
    LET r == ShardPut(shard, KeyHash(key), ValueHash(value), key, value, version)
    IN /\ shard_op.calls < MaxShardOps
       /\ shard' = r.shard
       /\ shard_op' = [shard_op EXCEPT !.op = "put", !.rc = r.rc,
                                       !.calls = @ + 1]
       /\ UNCHANGED <<diskVars, otherVars>>

ShardDelStep(key) ==
    LET r == ShardDel(shard, KeyHash(key), key)
    IN /\ shard_op.calls < MaxShardOps
       /\ shard' = r.shard
       /\ shard_op' = [shard_op EXCEPT !.op = "del", !.rc = r.rc,
                                       !.calls = @ + 1]
       /\ UNCHANGED <<diskVars, otherVars>>

ShardCopyStep(c) ==
    /\ shard_op.copies < MaxCopies
    /\ shard' = CopyTo(shard, c)
    /\ shard_op' = [shard_op EXCEPT !.op = "copy_to", !.rc = "SUCCESS",
                                    !.copies = @ + 1]
    /\ UNCHANGED <<diskVars, otherVars>>

NextShard ==
    \/ \E key \in Keys, value \in Values :
           ShardPutStep(key, value, shard.m_search_offset + 1)
    \/ \E key \in Keys : ShardDelStep(key)
    \/ \E c \in CopyRegions : ShardCopyStep(c)

SpecShard == InitShard /\ [][NextShard]_vars

(***************************************************************************)
(* The disk under put, del and flush, one call at a time.                  *)
(***************************************************************************)
Init == InitShardVars /\ InitDiskVars /\ InitOtherVars

\* does the WAL hold an entry of key?
InWal(log, key) == \E i \in 1..Len(log) : log[i].key = key

\* what the caller knows after a put / del of key was accepted
Record(op, key, value, version) ==
    [written EXCEPT ![key] =
        [op |-> op, value |-> value, version |-> version,
         prev_op |-> written[key].op, prev_value |-> written[key].value,
         prev_in_wal |-> InWal(m_log, key)]]

\* disk::put(key, value, version): the return code.  DiskPutCodeAlways
\* accepts every value.
DiskPutCodeAlways(value) == "SUCCESS"
DiskPutCode(value) == IF Len(value) + 1 # 2 THEN "WRONGARITY" ELSE "SUCCESS"

\* a put / del of g's key after g's get started
Dirtied(key) == [g EXCEPT !.dirty = @ \/ (g.pc # "idle" /\ g.key = key)]

\* disk::put
Put(key, value, limit) ==
    /\ nops < limit
    /\ DiskPutCode(value) = "SUCCESS"
    /\ m_log' = Append(m_log, PutEntry(key, value, nops + 1))
    /\ written' = Record("put", key, value, nops + 1)
    /\ last_call' = [op |-> "put", key |-> key, rc |-> "SUCCESS",
                     did |-> "none", moved |-> FALSE, at |-> 0, before |-> <<>>]
    /\ nops' = nops + 1
    /\ g' = Dirtied(key)
    /\ UNCHANGED <<m_shards, f, shard, shard_op, otherVars>>

\* disk::del
Del(key, limit) ==
    /\ nops < limit
    /\ m_log' = Append(m_log, DelEntry(key))
    /\ written' = Record("del", key, <<>>, 0)
    /\ last_call' = [op |-> "del", key |-> key, rc |-> "SUCCESS",
                     did |-> "none", moved |-> FALSE, at |-> 0, before |-> <<>>]
    /\ nops' = nops + 1
    /\ g' = Dirtied(key)
    /\ UNCHANGED <<m_shards, f, shard, shard_op, otherVars>>

\* disk::flush, from trylock to return
FlushCall ==
    \E r \in {Flush(m_shards, m_log)} :
       /\ f.pc = "idle"
       /\ m_shards' = r.shards
       /\ m_log' = r.log
       /\ last_call' = [op |-> "flush", key |-> 0, rc |-> r.f.rc,
                        did |-> r.f.did, moved |-> r.f.moved, at |-> r.f.at,
                        before |-> r.f.before]
       /\ UNCHANGED <<f, g, written, nops, shard, shard_op, otherVars>>

Next ==
    \/ \E key \in Keys, value \in Values : Put(key, value, MaxOps)
    \/ \E key \in Keys : Del(key, MaxOps)
    \/ FlushCall

Spec == Init /\ [][Next]_vars


(***************************************************************************)
(* One disk::get beside the flusher, with put and del arriving.  The       *)
(* flusher moves from one store to shared memory (a shard del or put that  *)
(* succeeds, remove_oldest, the publication of a vector) to the next; the  *)
(* reader moves from one load of shared memory to the next.  A vector      *)
(* snapshot holds, per slot, the index of the shard in the published       *)
(* vector while the shard is still published (idx > 0), and the shard as   *)
(* it was left once it has been replaced (idx = 0).                        *)
(***************************************************************************)
RECURSIVE FlushRunVisible(_)
\* flush from the state r of shards, log and flusher up to and including its
\* next store to shared memory
FlushRunVisible(r) ==
    With(FlushStep(r.shards, r.log, r.f),
         LAMBDA next : IF next.visible THEN next ELSE FlushRunVisible(next))

\* the snapshot of a reader after the flusher published a vector in which
\* slot at was replaced (clean) or removed, four slots being appended (split)
SnapAfterPublish(snap, shards, did, at) ==
    [n \in 1..Len(snap) |->
        IF snap[n].idx = at
        THEN [snap[n] EXCEPT !.idx = 0, !.shard = shards[at].shard]
        ELSE IF did = "split" /\ snap[n].idx > at
        THEN [snap[n] EXCEPT !.idx = @ - 1]
        ELSE snap[n]]

\* e::locking_iterable_fifo: the entries a cursor yields are those it had not
\* passed when they were removed, then those still in the log
CursorView(retained, log) == retained \o log

\* disk::get: the positions at which the WAL cursor is open: from the first
\* line of get on.  CursorOpenAtLoop opens it where the loop over it starts.
CursorOpenAtLoop(pc) == pc = "drain"
CursorOpen(pc) == pc \in {"snap", "walk", "drain"}

\* the flusher's next step
FlusherStep ==
    \E r \in {FlushRunVisible(
                 [shards |-> m_shards, log |-> m_log,
                  f |-> IF f.pc = "idle" THEN StartedFlusher ELSE f,
                  visible |-> FALSE])} :
    LET removed == Len(r.log) < Len(m_log)
        published == r.f.pc = "idle" /\ r.f.did # "none"
    IN /\ m_shards' = r.shards
       /\ m_log' = r.log
       /\ f' = r.f
       /\ g' = [g EXCEPT
                 !.retained = IF removed /\ CursorOpen(g.pc)
                              THEN Append(@, Head(m_log)) ELSE @,
                 !.snap = IF published
                          THEN SnapAfterPublish(@, m_shards, r.f.did, r.f.at)
                          ELSE @,
                 !.published = IF published /\ g.pc \in {"snap", "walk", "drain"}
                               THEN r.f.did ELSE @]
       /\ last_call' = IF r.f.pc = "idle"
                       THEN [op |-> "flush", key |-> 0, rc |-> r.f.rc,
                             did |-> r.f.did, moved |-> r.f.moved,
                             at |-> r.f.at, before |-> r.f.before]
                       ELSE last_call
       /\ UNCHANGED <<written, nops, shard, shard_op, otherVars>>

\* disk::get, m_log.iterate()
GetStart(key) ==
    /\ g.pc = "idle"
    /\ g' = [IdleReader EXCEPT !.pc = "snap", !.key = key,
                               !.expect = written[key]]
    /\ UNCHANGED <<m_shards, m_log, f, written, last_call, nops, shard, shard_op, otherVars>>

\* disk::get, shards = m_shards under m_shards_lock
GetSnapshot ==
    /\ g.pc = "snap"
    /\ g' = [g EXCEPT !.pc = "walk", !.i = 1, !.shard_res = NotFound,
                !.snap = [n \in 1..Len(m_shards) |->
                             [coord |-> m_shards[n].coord, idx |-> n,
                              shard |-> NewShard]]]
    /\ UNCHANGED <<m_shards, m_log, f, written, last_call, nops, shard, shard_op, otherVars>>

\* the shard behind a slot of a snapshot
SnapShard(slot) == IF slot.idx > 0 THEN m_shards[slot.idx].shard ELSE slot.shard

\* the next slot of the snapshot from i on whose coordinate primary-contains
\* coord, Len + 1 if none
RECURSIVE NextContaining(_, _, _)
NextContaining(snap, coord, i) ==
    IF i > Len(snap) \/ PrimaryContains(snap[i].coord, coord) THEN i
    ELSE NextContaining(snap, coord, i + 1)

\* disk::get, the next shard get of the walk
GetWalk ==
    LET coord == GetCoordinateKey(g.key)
        j == NextContaining(g.snap, coord, g.i)
        res == ShardGet(SnapShard(g.snap[j]), coord.primary_hash, g.key)
    IN /\ g.pc = "walk"
       /\ g' = IF j > Len(g.snap) THEN [g EXCEPT !.pc = "drain"]
               ELSE IF res.rc = "SUCCESS"
               THEN [g EXCEPT !.pc = "drain", !.shard_res = res]
               ELSE [g EXCEPT !.i = j + 1, !.shard_res = res]
       /\ UNCHANGED <<m_shards, m_log, f, written, last_call, nops, shard, shard_op, otherVars>>

\* disk::get, the loop over the WAL cursor and the return
GetDrain ==
    LET coord == GetCoordinateKey(g.key)
        wal == WalDrain(CursorView(g.retained, m_log), coord, g.key, 1,
                        [found |-> FALSE, wal_res |-> NotFound])
    IN /\ g.pc = "drain"
       /\ g' = [g EXCEPT !.pc = "done", !.result = GetResult(g.shard_res, wal),
                         !.from_wal = wal.found,
                         !.snap = <<>>, !.retained = <<>>, !.i = 0,
                         !.shard_res = NotFound]
       /\ UNCHANGED <<m_shards, m_log, f, written, last_call, nops, shard, shard_op, otherVars>>

\* the caller has the result
GetReturn ==
    /\ g.pc = "done"
    /\ g' = IdleReader
    /\ UNCHANGED <<m_shards, m_log, f, written, last_call, nops, shard, shard_op, otherVars>>

NextGet ==
    \/ \E key \in Keys, value \in Values : Put(key, value, MaxGetOps)
    \/ \E key \in Keys : Del(key, MaxGetOps)
    \/ FlusherStep
    \/ \E key \in Keys : GetStart(key)
    \/ GetSnapshot
    \/ GetWalk
    \/ GetDrain
    \/ GetReturn

SpecGet == Init /\ [][NextGet]_vars

(***************************************************************************)
(* Claims about one shard.                                                 *)
(***************************************************************************)
Buckets == 0..(HASH_TABLE_ENTRIES - 1)
LogIndices == 0..(SEARCH_INDEX_ENTRIES - 1)

\* no two slots are assigned to the same (primary_hash, key) pair
OwnersDistinct ==
    \A b1 \in Buckets, b2 \in Buckets :
        (b1 # b2 /\ SlotOwner(shard, b1) # <<>>)
            => SlotOwner(shard, b1) # SlotOwner(shard, b2)

\* a put or del leaves every assigned slot with the pair it is assigned to
OwnersKept ==
    shard_op'.op \in {"put", "del"} =>
        \A b \in Buckets :
            SlotOwner(shard, b) # <<>> => SlotOwner(shard', b) = SlotOwner(shard, b)

\* C9 (hash-slot stability): under any sequence of put and del on one shard,
\* a slot once assigned to a (primary_hash, key) pair stays assigned to that
\* pair, and no second slot is ever assigned to the same pair, also when the
\* key is deleted and put again.
C9_HashSlotStability == []OwnersDistinct /\ [][OwnersKept]_vars

\* a key deleted (its entry invalidated by a tombstone, which is no record)
\* and put again: it is live at a later entry, and its one slot holds the
\* offset of the new record
C9_Witness ==
    /\ shard_op.copies = 0
    /\ \E e1 \in LogIndices, e2 \in LogIndices, b \in Buckets :
        /\ e1 < e2
        /\ shard.search_log[e1].invalidator # 0
        /\ shard.search_log[e1].invalidator \notin DOMAIN shard.data
        /\ shard.search_log[e2].data_offset # 0
        /\ shard.search_log[e2].invalidator = 0
        /\ shard.data[shard.search_log[e1].data_offset].key
               = shard.data[shard.search_log[e2].data_offset].key
        /\ shard.hash_table[b].offset = shard.search_log[e2].data_offset
        /\ ~shard.hash_table[b].invalid
        /\ \E b2 \in Buckets : b2 # b /\ SlotOwner(shard, b2) # <<>>

\* C10 (monotone log): the entries below m_search_offset have strictly
\* increasing data_offset and every entry from m_search_offset on is zero.
C10_MonotoneLog ==
    \A i \in LogIndices :
        /\ i < shard.m_search_offset => shard.search_log[i].data_offset # 0
        /\ (i + 1 < shard.m_search_offset) =>
               shard.search_log[i].data_offset < shard.search_log[i + 1].data_offset
        /\ i >= shard.m_search_offset => shard.search_log[i] = ZeroEntry

\* a log of three entries, one of them stale, built by put and del on a shard
\* that was filled by copy_to
C10_Witness ==
    /\ shard_op.copies = 1
    /\ shard_op.op \in {"put", "del"}
    /\ shard_op.rc = "SUCCESS"
    /\ shard.m_search_offset >= 3
    /\ \E i \in LogIndices : shard.search_log[i].invalidator # 0

(***************************************************************************)
(* Claims about the disk, one call at a time.                              *)
(***************************************************************************)
\* disk::get(key) in the current state
Get(key) == DiskGet(m_shards, m_log, key)

\* is key live in some shard of the vector?
InShards(key) ==
    \E n \in 1..Len(m_shards) :
        \E r \in LiveRecords(m_shards[n].shard) : r.key = key

\* C1: round trip.  Whenever the last operation the disk accepted on a key is
\* put(k, v, ver), whatever number of flush calls and whatever operations on
\* other keys followed, get(k) returns Found(v, ver).
C1_RoundTrip ==
    \A k \in Keys :
        written[k].op = "put" =>
            Get(k) = Found(written[k].value, written[k].version)

\* a put has been flushed out of the WAL into a shard that a split created,
\* and flush was the last call
C1_Witness ==
    /\ last_call.op = "flush"
    /\ Len(m_shards) >= 4
    /\ \E k \in Keys :
        /\ written[k].op = "put"
        /\ ~InWal(m_log, k)
        /\ InShards(k)

\* C3: WAL visibility.  Right after put(k, v, ver) returned Success, before
\* any flush, get(k) returns Found(v, ver), whatever the shards hold for k.
C3_WalVisibility ==
    last_call.op = "put" /\ last_call.rc = "SUCCESS" =>
        Get(last_call.key) = Found(written[last_call.key].value,
                                   written[last_call.key].version)

\* put has just returned and a shard holds an older flushed record of the key
\* with another value
C3_Witness ==
    /\ last_call.op = "put"
    /\ \E n \in 1..Len(m_shards) :
        \E r \in LiveRecords(m_shards[n].shard) :
            /\ r.key = last_call.key
            /\ r.value # written[last_call.key].value
            /\ r.version < written[last_call.key].version

\* C4: delete overrides.  Whenever the last two operations on a key are a put
\* and then a del, whatever number of flush calls came between and after
\* them, get(k) returns NotFound.
C4_DeleteOverrides ==
    \A k \in Keys :
        written[k].op = "del" /\ written[k].prev_op = "put" =>
            Get(k) = NotFound

\* both cases with everything flushed: one key whose put was in a shard when
\* the del was appended, one key whose put was still in the WAL
C4_Witness ==
    /\ m_log = <<>>
    /\ \E k1 \in Keys, k2 \in Keys :
        /\ written[k1].op = "del" /\ written[k1].prev_op = "put"
        /\ ~written[k1].prev_in_wal
        /\ written[k2].op = "del" /\ written[k2].prev_op = "put"
        /\ written[k2].prev_in_wal

\* the result of the last entry of the WAL that holds key
LastInWal(key) ==
    LET n == CHOOSE i \in 1..Len(m_log) :
                 /\ m_log[i].key = key
                 /\ \A j \in (i + 1)..Len(m_log) : m_log[j].key # key
    IN IF m_log[n].coord.secondary_mask = UINT32_MAX
       THEN Found(m_log[n].value, m_log[n].version) ELSE NotFound

\* C5: last writer wins.  Whenever the last two operations on a key are
\* put(k, v1, ver1) and then put(k, v2, ver2), whatever flush calls came
\* between and after them, get(k) returns Found(v2, ver2); and while the WAL
\* holds entries of a key, get returns what the last of them says.
C5_LastWriterWins ==
    \A k \in Keys :
        /\ written[k].op = "put" /\ written[k].prev_op = "put" =>
               Get(k) = Found(written[k].value, written[k].version)
        /\ InWal(m_log, k) => Get(k) = LastInWal(k)

\* the flush that has just returned moved a key to another shard: the second
\* put has a value with another secondary hash; and another key has both of
\* its puts in the WAL
C5_Witness ==
    /\ last_call.op = "flush" /\ last_call.moved
    /\ \E k \in Keys :
        /\ written[k].op = "put" /\ written[k].prev_op = "put"
        /\ ValueHash(written[k].value) # ValueHash(written[k].prev_value)
        /\ ~InWal(m_log, k)

\* the coordinate of a record
RecordCoordinate(r) ==
    Coordinate(UINT32_MAX, r.primary_hash, UINT32_MAX, r.secondary_hash)

\* the children of parent, a (coordinate, shard) pair, keep its records and
\* tile its region
SplitPreserves(parent, children) ==
    /\ \A r \in LiveRecords(parent.shard) :
        /\ Cardinality({n \in 1..4 : r \in LiveRecords(children[n].shard)}) = 1
        /\ \A n \in 1..4 :
               r \in LiveRecords(children[n].shard) =>
                   /\ Contains(children[n].coord, RecordCoordinate(r))
                   /\ ShardGet(children[n].shard, r.primary_hash, r.key)
                          = Found(r.value, r.version)
    /\ \A n \in 1..4 :
           LiveRecords(children[n].shard) \subseteq LiveRecords(parent.shard)
    /\ \A ph \in Words, sh \in Words :
        LET pt == Coordinate(UINT32_MAX, ph, UINT32_MAX, sh)
        IN Cardinality({n \in 1..4 : Contains(children[n].coord, pt)})
               = IF Contains(parent.coord, pt) THEN 1 ELSE 0

\* the regions deal_with_full_shard splits
SplitRegions ==
    {c \in Regions : c.primary_mask # UINT32_MAX /\ c.secondary_mask # UINT32_MAX}

\* the bits of a word that mask leaves free
FreeBits(mask) == {2^i : i \in {j \in 0..(HashBits - 1) : BitOf(mask, j) = 0}}

\* the counts which_to_split can be given for the records of a shard
BitCountings == [0..(HashBits - 1) -> 0..SEARCH_INDEX_ENTRIES]

\* which_to_split picks a free bit of every mask that has one, and the four
\* coordinates split_shard makes of a region on free bits tile the region
SplitTiles ==
    /\ \A mask \in Words \ {UINT32_MAX} :
        \A zeros \in BitCountings, ones \in BitCountings :
            2^WhichToSplit(mask, zeros, ones) \in FreeBits(mask)
    /\ \A c \in SplitRegions :
        \A sb \in FreeBits(c.secondary_mask) :
            \A pl \in FreeBits(c.primary_mask), pu \in FreeBits(c.primary_mask) :
                \A ph \in Words, sh \in Words :
                    LET pt == Coordinate(UINT32_MAX, ph, UINT32_MAX, sh)
                    IN Cardinality({n \in 1..4 :
                           Contains(SplitCoordinates(c, sb, pl, pu)[n], pt)})
                       = IF Contains(c, pt) THEN 1 ELSE 0

\* the four pairs split_shard appended to the vector
LastFour(shards) == SubSeq(shards, Len(shards) - 3, Len(shards))

\* C6: split preservation.  When the flush that has just returned split a
\* shard, every record live in the parent is live in exactly one of the four
\* children with its key, value and version, no child holds any other record,
\* and every point of the hash space lies in exactly one child region when it
\* lies in the parent region and in none otherwise; the rest of the vector is
\* kept.  The children tile the parent for every region split_shard can be
\* called on and every bit which_to_split can pick there.
C6_SplitPreservation ==
    /\ last_call.did = "split" =>
        /\ SplitPreserves(last_call.before[last_call.at], LastFour(m_shards))
        /\ SubSeq(m_shards, 1, Len(m_shards) - 4)
               = SubSeq(last_call.before, 1, last_call.at - 1)
                   \o SubSeq(last_call.before, last_call.at + 1,
                             Len(last_call.before))
    /\ SplitTiles

\* the flush that has just returned split a shard whose live records went to
\* two children
C6_Witness ==
    /\ last_call.did = "split"
    /\ Cardinality(LiveRecords(last_call.before[last_call.at].shard)) >= 2
    /\ Cardinality({n \in 1..4 :
           LiveRecords(LastFour(m_shards)[n].shard) # {}}) >= 2

\* what clean_shard must keep of a shard
CleanKeeps(s, t) ==
    /\ LiveRecords(s) = LiveRecords(t)
    /\ s.search_log = t.search_log
    /\ s.m_data_offset = t.m_data_offset

\* C7: clean preserves observable state and is idempotent.  When the flush
\* that has just returned cleaned shard i, get(k) returns for every key what
\* it returned on the vector before, and cleaning shard i once more leaves its
\* live records, search log and data offset as they are.  The same holds for
\* the clean of every shard of the vector in every state.
C7_CleanIdempotent ==
    /\ last_call.did = "clean" =>
        /\ \A k \in Keys : Get(k) = DiskGet(last_call.before, m_log, k)
        /\ CleanKeeps(CleanShard(m_shards, last_call.at)[last_call.at].shard,
                      m_shards[last_call.at].shard)
    /\ \A n \in 1..Len(m_shards) :
        \A once \in {CleanShard(m_shards, n)} :
            /\ \A k \in Keys : DiskGet(once, m_log, k) = Get(k)
            /\ CleanKeeps(CleanShard(once, n)[n].shard, once[n].shard)

\* the flush that has just returned cleaned a shard that held a stale and a
\* live record
C7_Witness ==
    /\ last_call.did = "clean"
    /\ LiveRecords(m_shards[last_call.at].shard) # {}
    /\ m_shards[last_call.at].shard.m_search_offset
           < last_call.before[last_call.at].shard.m_search_offset

\* C8: when the flush that has just returned cleaned shard i and the shard it
\* left there holds a record, stale_space() of that shard is 0.
C8_CleanLeavesNoStaleSpace ==
    last_call.did = "clean"
    /\ LiveRecords(m_shards[last_call.at].shard) # {} =>
        StaleSpace(m_shards[last_call.at].shard) = 0

(***************************************************************************)
(* Claims about a get beside the flusher.                                  *)
(***************************************************************************)
\* C2: concurrent read consistency.  A get(k) that started after
\* put(k, v, ver) returned, with no put or del of k since, returns
\* Found(v, ver), however its steps interleave with the flusher's shard del,
\* shard put, remove_oldest and publications of a cleaned or split vector.
C2_ConcurrentRead ==
    g.pc = "done" /\ ~g.dirty /\ g.expect.op = "put" =>
        g.result = Found(g.expect.value, g.expect.version)

\* a get returned the put from its WAL cursor although the flusher, while the
\* get ran, split the shard and removed the entry from the WAL
C2_Witness ==
    /\ g.pc = "done" /\ ~g.dirty /\ g.expect.op = "put"
    /\ g.published = "split"
    /\ g.from_wal
    /\ ~InWal(m_log, g.key)


(***************************************************************************)
(* shard::fsck.                                                            *)
(***************************************************************************)
\* shard::fsck, the body of the loop for search-log entry i that is not
\* behind a zero offset: TRUE when the entry raises no error.  The key is
\* read at the entry's offset and looked up under the entry's primary hash.
\* A lookup that probes every slot leaves table_entry and table_value unset,
\* and the comparisons on them can fail.
FsckEntry(s, i) ==
    LET e == s.search_log[i]
        look == HashLookup(s, e.primary_hash, s.data[e.data_offset].key)
        table_value == look.value
    IN IF look.wrapped THEN FALSE
       ELSE IF table_value.hash = e.primary_hash
       THEN ~(e.invalidator = 0
              /\ (table_value.invalid \/ table_value.offset # e.data_offset))
       ELSE /\ ~(table_value.offset # 0 \/ table_value.invalid)
            /\ ~(e.invalidator = 0)

RECURSIVE FsckLoop(_, _, _, _)
FsckLoop(s, i, zero, ret) ==
    IF i >= SEARCH_INDEX_ENTRIES THEN ret
    ELSE LET e == s.search_log[i]
             now_zero == zero \/ e.data_offset = 0
             offsets_set == e.data_offset # 0 \/ e.invalidator # 0
             hashes_set == e.primary_hash # 0 \/ e.secondary_hash # 0
             ok == IF now_zero THEN ~offsets_set /\ ~hashes_set
                   ELSE FsckEntry(s, i)
         IN FsckLoop(s, i + 1, now_zero, ret /\ ok)

\* shard::fsck
Fsck(s) == FsckLoop(s, 0, FALSE, TRUE)

(***************************************************************************)
(* Claims about fsck.                                                      *)
(***************************************************************************)
\* the slots whose stored hash is primary_hash and whose record holds key
MatchingSlots(s, primary_hash, key) ==
    {b \in Buckets :
        /\ ~SlotOffsetZero(s.hash_table[b])
        /\ s.hash_table[b].hash = primary_hash
        /\ KeyMatches(s, s.hash_table[b].offset, key)}

\* search-log entry i is live: it has an offset and no invalidator
LiveEntry(s, i) ==
    s.search_log[i].data_offset # 0 /\ s.search_log[i].invalidator = 0

\* hash_lookup of the key of live entry i ends at the one slot that matches
\* the entry's (primary_hash, key), and that slot holds the entry's offset
LiveEntryResolves(s, i) ==
    LET e == s.search_log[i]
        key == s.data[e.data_offset].key
        look == HashLookup(s, e.primary_hash, key)
    IN /\ ~look.wrapped
       /\ MatchingSlots(s, e.primary_hash, key) = {look.entry}
       /\ ~look.value.invalid
       /\ look.value.offset = e.data_offset

\* C11 (fsck): on a shard that has only been mutated through put and del,
\* fsck returns true, and every live search-log entry resolves through
\* hash_lookup of its (primary_hash, key) to exactly one hash-table slot,
\* whose offset equals the entry's data_offset.
C11_FsckHolds ==
    shard_op.copies = 0 =>
        /\ Fsck(shard)
        /\ \A i \in LogIndices : LiveEntry(shard, i) => LiveEntryResolves(shard, i)

\* a shard built by put and del alone that holds a stale entry, a tombstoned
\* key and a live entry, two of them under the same primary hash
C11_Witness ==
    /\ shard_op.copies = 0
    /\ shard_op.op \in {"put", "del"}
    /\ shard_op.rc = "SUCCESS"
    /\ \E i \in LogIndices, j \in LogIndices :
           /\ i # j
           /\ LiveEntry(shard, i)
           /\ shard.search_log[j].invalidator # 0
           /\ shard.search_log[i].primary_hash = shard.search_log[j].primary_hash
           /\ shard.data[shard.search_log[i].data_offset].key
                  # shard.data[shard.search_log[j].data_offset].key
    /\ \E b \in Buckets : shard.hash_table[b].invalid
    /\ Fsck(shard)


(***************************************************************************)
(* The locks of the disk: threads calling get, put, del, flush,            *)
(* preallocate, async, sync and drop, one lock operation or one step on    *)
(* the shards at a time.  What a step reads or writes is left out; which   *)
(* branch flush takes is any of those its code has.                        *)
(***************************************************************************)
\* po6::threads::mutex::trylock on a mutex held by owner (0: free).
\* TryLockAlways takes the mutex also when it is held.
TryLockAlways(owner) == TRUE
TryLock(owner) == owner = 0

\* thread t moves to pc
Goto(t, pc) == th' = [th EXCEPT ![t].pc = pc]

\* thread t returns from its call
Return(t) == th' = [th EXCEPT ![t].pc = "idle"]

\* po6::threads::mutex::hold on lock: blocks until the mutex is free
Hold(t, lock, pc) ==
    /\ mtx[lock] = 0
    /\ mtx' = [mtx EXCEPT ![lock] = t]
    /\ Goto(t, pc)

\* the end of the scope of a hold
Release(t, lock, pc) ==
    /\ mtx' = [mtx EXCEPT ![lock] = 0]
    /\ Goto(t, pc)

\* a thread enters a call
Call(t, op, pc) ==
    /\ th[t].pc = "idle"
    /\ th' = [th EXCEPT ![t] = [op |-> op, pc |-> pc, busy |-> FALSE,
                                 removed |-> 0]]
    /\ UNCHANGED mtx

\* disk::put and disk::del: one append to m_log, under no lock of the disk
LogAppend(t) ==
    /\ th[t].pc = "append"
    /\ Return(t)
    /\ UNCHANGED mtx

\* disk::get, disk::async, disk::sync: shards = m_shards under m_shards_lock,
\* then reads (or msync) on the shards of the copy
SnapLock(t) ==
    /\ th[t].pc = "snap_lock"
    /\ Hold(t, "m_shards_lock", "snap_copy")

SnapUnlock(t) ==
    /\ th[t].pc = "snap_copy"
    /\ Release(t, "m_shards_lock", "snap_read")

SnapRead(t) ==
    /\ th[t].pc = "snap_read"
    /\ Return(t)
    /\ UNCHANGED mtx

\* disk::flush, the trylock at its head: a flush that finds m_shards_mutate
\* taken returns SUCCESS at once
FlushTryLock(t) ==
    /\ th[t].pc = "flush_trylock"
    /\ IF TryLock(mtx.m_shards_mutate)
       THEN /\ mtx' = [mtx EXCEPT !.m_shards_mutate = t]
            /\ Goto(t, "flush_loop")
       ELSE /\ th' = [th EXCEPT ![t].pc = "idle", ![t].busy = TRUE]
            /\ UNCHANGED mtx

\* disk::flush, the bound of its loop: i < 100.  FlushLoopGoesOn loops until
\* the WAL is empty.
FlushLoopGoesOn(i) == TRUE
FlushLoopGoes(i) == i < FlushLimit

\* disk::flush inside its loop: a shard del, a shard put, a full shard to
\* clean or split, remove_oldest at the end of an iteration, or the return
FlushBranch(t, pc) ==
    /\ th[t].pc = "flush_loop"
    /\ pc # "flush_return" => FlushLoopGoes(th[t].removed)
    /\ Goto(t, pc)
    /\ UNCHANGED mtx

\* m_log.remove_oldest() and ++i
FlushRemoved(t) ==
    /\ th[t].pc = "remove"
    /\ th' = [th EXCEPT ![t].pc = "flush_loop", ![t].removed = @ + 1]
    /\ UNCHANGED mtx

\* the call of shard::del or shard::put on a shard of m_shards returns
FlushApplied(t) ==
    /\ th[t].pc \in {"shard_del", "shard_put"}
    /\ Goto(t, "flush_loop")
    /\ UNCHANGED mtx

\* clean_shard and split_shard, create_shard / create_tmp_shard: the spare
\* pool is read under m_spare_shards_lock
DealSpareLock(t) ==
    /\ th[t].pc = "deal"
    /\ Hold(t, "m_spare_shards_lock", "deal_spare")

DealSpareUnlock(t) ==
    /\ th[t].pc = "deal_spare"
    /\ Release(t, "m_spare_shards_lock", "copy_to")

\* copy_to into the replacement shards has returned
DealCopied(t) ==
    /\ th[t].pc = "copy_to"
    /\ Goto(t, "publish_lock")
    /\ UNCHANGED mtx

\* m_shards = newshard_vector under m_shards_lock
DealPublishLock(t) ==
    /\ th[t].pc = "publish_lock"
    /\ Hold(t, "m_shards_lock", "publish")

DealPublished(t) ==
    /\ th[t].pc = "publish"
    /\ Release(t, "m_shards_lock", "flush_return")

\* the guard of flush unlocks m_shards_mutate on every return
FlushUnlock(t) ==
    /\ th[t].pc = "flush_return"
    /\ mtx' = [mtx EXCEPT !.m_shards_mutate = 0]
    /\ Return(t)

\* disk::preallocate: the size of the spare pool under m_spare_shards_lock,
\* m_shards under m_shards_lock, then the spare shards are created and pushed
\* under m_spare_shards_lock
PreSpareLock(t) ==
    /\ th[t].pc = "pre_spare_lock"
    /\ Hold(t, "m_spare_shards_lock", "pre_spare")

PreSpareUnlock(t) ==
    /\ th[t].pc = "pre_spare"
    /\ \E pc \in {"idle", "pre_snap_lock"} :
           Release(t, "m_spare_shards_lock", pc)

PreSnapLock(t) ==
    /\ th[t].pc = "pre_snap_lock"
    /\ Hold(t, "m_shards_lock", "pre_snap")

PreSnapUnlock(t) ==
    /\ th[t].pc = "pre_snap"
    /\ Release(t, "m_shards_lock", "pre_push_lock")

PrePushLock(t) ==
    /\ th[t].pc = "pre_push_lock"
    /\ Hold(t, "m_spare_shards_lock", "pre_push")

PrePushUnlock(t) ==
    /\ th[t].pc = "pre_push"
    /\ \E pc \in {"idle", "pre_push_lock"} :
           Release(t, "m_spare_shards_lock", pc)

\* disk::drop: holds m_shards_mutate and m_shards_lock while it unlinks the
\* shards
DropLockMutate(t) ==
    /\ th[t].pc = "drop_lock_a"
    /\ Hold(t, "m_shards_mutate", "drop_lock_b")

DropLockShards(t) ==
    /\ th[t].pc = "drop_lock_b"
    /\ Hold(t, "m_shards_lock", "drop_unlink")

DropUnlinked(t) ==
    /\ th[t].pc = "drop_unlink"
    /\ mtx' = [mtx EXCEPT !.m_shards_mutate = 0, !.m_shards_lock = 0]
    /\ Return(t)

\* the first position of each call
Calls ==
    {<<"get", "snap_lock">>, <<"async", "snap_lock">>, <<"sync", "snap_lock">>,
     <<"put", "append">>, <<"del", "append">>, <<"flush", "flush_trylock">>,
     <<"preallocate", "pre_spare_lock">>, <<"drop", "drop_lock_a">>}

NextLock ==
    /\ \E t \in Threads :
        \/ \E c \in Calls : Call(t, c[1], c[2])
        \/ LogAppend(t)
        \/ SnapLock(t)
        \/ SnapUnlock(t)
        \/ SnapRead(t)
        \/ FlushTryLock(t)
        \/ \E pc \in {"shard_del", "shard_put", "deal", "remove", "flush_return"} :
               FlushBranch(t, pc)
        \/ FlushApplied(t)
        \/ FlushRemoved(t)
        \/ DealSpareLock(t)
        \/ DealSpareUnlock(t)
        \/ DealCopied(t)
        \/ DealPublishLock(t)
        \/ DealPublished(t)
        \/ FlushUnlock(t)
        \/ PreSpareLock(t)
        \/ PreSpareUnlock(t)
        \/ PreSnapLock(t)
        \/ PreSnapUnlock(t)
        \/ PrePushLock(t)
        \/ PrePushUnlock(t)
        \/ DropLockMutate(t)
        \/ DropLockShards(t)
        \/ DropUnlinked(t)
    /\ UNCHANGED <<shardVars, diskVars, raceVars, dirVars, callVars>>

SpecLock == Init /\ [][NextLock]_vars

\* the positions at which a thread is inside shard put, shard del, copy_to
\* into a replacement, or the replacement of the shard vector
Mutating == {"shard_del", "shard_put", "copy_to", "publish"}

\* the positions of flush between its trylock and its return
InsideFlush ==
    {"flush_loop", "shard_del", "shard_put", "remove", "deal", "deal_spare",
     "copy_to", "publish_lock", "publish", "flush_return"}

\* C12 (single mutator): in every interleaving of concurrent get, put, del,
\* flush, preallocate, async, sync and drop calls, at most one thread is
\* inside a mutation of a published shard (shard put, shard del, copy_to
\* into a replacement, replacing the shard vector), no thread is inside one
\* while drop holds the shards, and two concurrent flush calls are never both
\* past the trylock.
C12_SingleMutator ==
    /\ Cardinality({t \in Threads : th[t].pc \in Mutating}) <= 1
    /\ Cardinality({t \in Threads : th[t].pc \in InsideFlush}) <= 1
    /\ \A t \in Threads :
           th[t].pc \in InsideFlush => mtx.m_shards_mutate = t
    /\ \A t \in Threads, u \in Threads :
           th[t].pc = "drop_unlink" => th[u].pc \notin Mutating

\* one thread inside shard put, a second whose flush has returned because
\* m_shards_mutate was taken, a third reading the shards in get
C12_Witness ==
    \E t \in Threads, u \in Threads, v \in Threads :
        /\ th[t].pc = "shard_put"
        /\ th[u].busy /\ th[u].op = "flush" /\ th[u].pc = "idle"
        /\ th[v].op = "get" /\ th[v].pc = "snap_read"

\* no thread outside a call holds a mutex, and no flush has removed more
\* than FlushLimit entries
FlushBounded ==
    \A t \in Threads :
        /\ th[t].removed <= FlushLimit
        /\ th[t].pc = "idle" =>
               \A lock \in DOMAIN mtx : mtx[lock] # t

\* a flush that finds m_shards_mutate held returns and touches nothing
FlushBusyReturns ==
    \A t \in Threads :
        FlushTryLock(t) /\ mtx.m_shards_mutate # 0 =>
            /\ th'[t].pc = "idle" /\ th'[t].removed = 0
            /\ mtx' = mtx
            /\ UNCHANGED <<m_log, m_shards, shard>>

MaxRaceSetup == 3

\* the bytes of a record that was never written: the file is zero-filled
ZeroRecord == [version |-> 0, key |-> 0, value |-> <<>>]

\* the record read at offset
ReadRecord(s, offset) ==
    IF offset \in DOMAIN s.data THEN s.data[offset] ELSE ZeroRecord

\* one memmove of shard::put into the record at offset
WriteField(s, offset, field, val) ==
    [s EXCEPT !.data =
        (offset :> [ReadRecord(s, offset) EXCEPT ![field] = val]) @@ @]

\* shard::put, its stores in program order: the record, the invalidation of
\* the old entry, the two words of the new entry, the slot, the two offsets.
\* PutStoresSlotFirst stores the slot before the record.
PutStoresSlotFirst ==
    <<"slot", "version", "key", "value", "invalidate", "log_hashes",
      "log_offset", "search_offset", "data_offset">>
PutStores ==
    <<"version", "key", "value", "invalidate", "log_hashes", "log_offset",
      "slot", "search_offset", "data_offset">>

\* shard::del, its stores in program order
DelStores == <<"invalidate", "data_offset", "slot">>

\* the stores of the writer's call
StoresOf(wr) == IF wr.op = "put" THEN PutStores ELSE DelStores

\* the shard after one store of shard::put
PutStore(s, wr, name) ==
    CASE name = "version" -> WriteField(s, wr.offset, "version", wr.version)
      [] name = "key" -> WriteField(s, wr.offset, "key", wr.key)
      [] name = "value" -> WriteField(s, wr.offset, "value", wr.value)
      [] name = "invalidate" ->
             IF ~wr.table_value.invalid
             THEN InvalidateSearchLog(s, wr.table_value.offset, wr.offset)
             ELSE s
      [] name = "log_hashes" ->
             [s EXCEPT !.search_log[s.m_search_offset].primary_hash =
                           KeyHash(wr.key),
                       !.search_log[s.m_search_offset].secondary_hash =
                           ValueHash(wr.value)]
      [] name = "log_offset" ->
             [s EXCEPT !.search_log[s.m_search_offset].data_offset = wr.offset,
                       !.search_log[s.m_search_offset].invalidator = 0]
      [] name = "slot" ->
             [s EXCEPT !.hash_table[wr.entry] =
                 [hash |-> KeyHash(wr.key), offset |-> wr.offset,
                  invalid |-> FALSE]]
      [] name = "search_offset" ->
             [s EXCEPT !.m_search_offset = s.m_search_offset + 1]
      [] name = "data_offset" ->
             [s EXCEPT !.m_data_offset =
                 PutDataOffset(s, wr.offset + DataSize(wr.key, wr.value))]

\* the shard after one store of shard::del
DelStore(s, wr, name) ==
    CASE name = "invalidate" ->
             InvalidateSearchLog(s, wr.table_value.offset, s.m_data_offset)
      [] name = "data_offset" -> [s EXCEPT !.m_data_offset = s.m_data_offset + 8]
      [] name = "slot" ->
             [s EXCEPT !.hash_table[wr.entry] =
                 DelSlotWord(KeyHash(wr.key), wr.table_value.offset)]

\* the writer enters put or del: the checks and hash_lookup of the call,
\* which store nothing; a call that returns an error stores nothing at all
StartedWriter(s, op, key, value, version) ==
    LET look == HashLookup(s, KeyHash(key), key)
        res == IF op = "put"
               THEN ShardPut(s, KeyHash(key), ValueHash(value), key, value, version)
               ELSE ShardDel(s, KeyHash(key), key)
    IN [pc |-> IF res.rc = "SUCCESS" THEN "storing" ELSE "done",
        op |-> op, key |-> key, value |-> value, version |-> version,
        entry |-> look.entry, table_value |-> look.value,
        offset |-> s.m_data_offset, step |-> 1,
        before |-> s, after |-> res.shard]

RaceWrite(op, key, value) ==
    /\ writer.pc = "idle"
    /\ writer' = StartedWriter(shard, op, key, value, shard.m_search_offset + 1)
    /\ UNCHANGED <<shard, shard_op, reader, diskVars, lockVars, dirVars, callVars>>

\* the writer's next store
RaceStore ==
    /\ writer.pc = "storing"
    /\ LET name == StoresOf(writer)[writer.step]
       IN shard' = IF writer.op = "put" THEN PutStore(shard, writer, name)
                   ELSE DelStore(shard, writer, name)
    /\ writer' = [writer EXCEPT !.step = @ + 1,
                      !.pc = IF writer.step = Len(StoresOf(writer)) THEN "done" ELSE @]
    /\ UNCHANGED <<shard_op, reader, diskVars, lockVars, dirVars, callVars>>

\* the reader enters get while the writer is in its call
RaceGet(key) ==
    /\ reader.pc = "idle"
    /\ writer.pc # "idle"
    /\ reader' = [reader EXCEPT !.pc = "probe", !.key = key]
    /\ UNCHANGED <<shard, shard_op, writer, diskVars, lockVars, dirVars, callVars>>

\* hash_lookup after a slot that does not hold the key: the exit on a zero
\* offset word, or the next slot; after HASH_TABLE_ENTRIES slots the outputs
\* are left unset
AfterMiss(rd, step) ==
    IF SlotOffsetZero(rd.this_entry)
    THEN [rd EXCEPT !.pc = "check", !.table_value = rd.this_entry,
                    !.slot_at = step]
    ELSE IF rd.off + 1 = HASH_TABLE_ENTRIES
    THEN [rd EXCEPT !.pc = "done", !.result = Aborted]
    ELSE [rd EXCEPT !.pc = "probe", !.off = @ + 1]

\* hash_lookup: the load of the slot's word
RaceProbe ==
    /\ reader.pc = "probe"
    /\ LET bucket == HASH_INTO_TABLE(HASH_INTO_TABLE(KeyHash(reader.key)) + reader.off)
           loaded == [reader EXCEPT !.this_entry = shard.hash_table[bucket]]
       IN reader' = IF loaded.this_entry.hash = KeyHash(reader.key)
               THEN [loaded EXCEPT !.pc = "cmp_key"]
               ELSE AfterMiss(loaded, writer.step)
    /\ UNCHANGED <<shard, shard_op, writer, diskVars, lockVars, dirVars, callVars>>

\* hash_lookup: the loads of key_size and of the key at the slot's offset
RaceCmpKey ==
    /\ reader.pc = "cmp_key"
    /\ reader' = IF ReadRecord(shard, reader.this_entry.offset).key = reader.key
            THEN [reader EXCEPT !.pc = "check", !.table_value = reader.this_entry,
                           !.slot_at = writer.step]
            ELSE AfterMiss(reader, writer.step)
    /\ UNCHANGED <<shard, shard_op, writer, diskVars, lockVars, dirVars, callVars>>

\* shard::get: the test of table_offset
RaceCheck ==
    /\ reader.pc = "check"
    /\ reader' = IF SlotOffsetZero(reader.table_value) \/ reader.table_value.invalid
            THEN [reader EXCEPT !.pc = "done", !.result = NotFound]
            ELSE [reader EXCEPT !.pc = "load_version"]
    /\ UNCHANGED <<shard, shard_op, writer, diskVars, lockVars, dirVars, callVars>>

\* shard::get: data_version
RaceLoadVersion ==
    /\ reader.pc = "load_version"
    /\ reader' = [reader EXCEPT !.pc = "load_value",
                      !.version = ReadRecord(shard, reader.table_value.offset).version]
    /\ UNCHANGED <<shard, shard_op, writer, diskVars, lockVars, dirVars, callVars>>

\* shard::get: data_value
RaceLoadValue ==
    /\ reader.pc = "load_value"
    /\ reader' = [reader EXCEPT !.pc = "done",
                      !.result = Found(ReadRecord(shard, reader.table_value.offset).value,
                                       reader.version)]
    /\ UNCHANGED <<shard, shard_op, writer, diskVars, lockVars, dirVars, callVars>>

NextRace ==
    \/ /\ writer.pc = "idle"
       /\ shard_op.calls < MaxRaceSetup
       /\ \/ \E key \in Keys, value \in Values :
                 ShardPutStep(key, value, shard.m_search_offset + 1)
          \/ \E key \in Keys : ShardDelStep(key)
    \/ \E key \in Keys, value \in Values : RaceWrite("put", key, value)
    \/ \E key \in Keys : RaceWrite("del", key, <<>>)
    \/ RaceStore
    \/ \E key \in Keys : RaceGet(key)
    \/ RaceProbe
    \/ RaceCmpKey
    \/ RaceCheck
    \/ RaceLoadVersion
    \/ RaceLoadValue

SpecRace == Init /\ [][NextRace]_vars

\* C13 (reader racing writer): a shard get that runs concurrently with one
\* shard put or del, load by load against the writer's stores, returns the
\* result it would have returned before the write started or the result
\* after it finished, so never the value or version of another key or of a
\* record whose bytes were not yet written; the stores of the write add up
\* to the shard the call produces.
C13_RacingGet ==
    /\ reader.pc = "done" =>
           reader.result \in {ShardGet(writer.before, KeyHash(reader.key), reader.key),
                         ShardGet(writer.after, KeyHash(reader.key), reader.key)}
    /\ writer.pc = "done" => shard = writer.after

\* a get of the key being put that loaded the key's slot after the new
\* record was written and before the slot was stored, and returned the old
\* value after the put had finished
C13_Witness ==
    /\ reader.pc = "done"
    /\ writer.pc = "done"
    /\ writer.op = "put"
    /\ writer.key = reader.key
    /\ reader.slot_at > 3
    /\ reader.slot_at <= 7
    /\ reader.result.rc = "SUCCESS"
    /\ reader.result = ShardGet(writer.before, KeyHash(reader.key), reader.key)
    /\ reader.result # ShardGet(writer.after, KeyHash(reader.key), reader.key)


(***************************************************************************)
(* disk::put with values of any arity, among del and flush calls.          *)
(***************************************************************************)
\* put and del calls on the disk when values of any arity are put
MaxArityOps == 3

\* values of zero, one and two attributes; the disk's arity is 2
AnyValues == {<<>>} \cup Values \cup {<<a, b>> : a \in Attrs, b \in Attrs}

\* disk::put returning at "return WRONGARITY"
PutRejected(key, value, limit) ==
    /\ nops < limit
    /\ DiskPutCode(value) # "SUCCESS"
    /\ last_call' = [op |-> "put", key |-> key, rc |-> DiskPutCode(value),
                     did |-> "none", moved |-> FALSE, at |-> 0, before |-> <<>>]
    /\ nops' = nops + 1
    /\ UNCHANGED <<m_shards, m_log, f, g, written, shard, shard_op, otherVars>>

\* disk::put, any value
DiskPut(key, value, limit) ==
    \/ Put(key, value, limit)
    \/ PutRejected(key, value, limit)

NextArity ==
    \/ \E key \in Keys, value \in AnyValues : DiskPut(key, value, MaxArityOps)
    \/ \E key \in Keys : Del(key, MaxArityOps)
    \/ FlushCall

SpecArity == Init /\ [][NextArity]_vars

\* the record of value does not fit into the shard that would take it
Overfull(key, value) ==
    \E i \in 1..Len(m_shards) :
        /\ Contains(m_shards[i].coord, GetCoordinateKeyValue(key, value))
        /\ DataSize(key, value) + m_shards[i].shard.m_data_offset > FILE_SIZE

\* what a put of value under key does to the disk, by the arity of value
PutContract(key, value) ==
    IF Len(value) + 1 # 2
    THEN /\ last_call'.rc = "WRONGARITY"
         /\ m_log' = m_log
         /\ m_shards' = m_shards
         /\ \A k \in Keys :
                DiskGet(m_shards', m_log', k) = DiskGet(m_shards, m_log, k)
    ELSE /\ last_call'.rc = "SUCCESS"
         /\ m_log' = Append(m_log, PutEntry(key, value, nops + 1))
         /\ m_shards' = m_shards

\* C14 (put and arity): a put whose value size + 1 differs from the disk's
\* arity returns WrongArity, appends nothing to the WAL and leaves every get
\* as it was; a put of the right arity returns Success and appends exactly
\* one put entry, touches no shard, and does so also when the record does
\* not fit into its shard.
C14_PutArity ==
    [][\A key \in Keys, value \in AnyValues :
           DiskPut(key, value, MaxArityOps) => PutContract(key, value)]_vars

\* a put of a wrong arity was rejected, for a key that get finds, after a
\* put of the right arity had been accepted although its record does not fit
\* into the shard that would take it
C14_Witness ==
    /\ last_call.op = "put"
    /\ last_call.rc = "WRONGARITY"
    /\ DiskGet(m_shards, m_log, last_call.key).rc = "SUCCESS"
    /\ m_log # <<>>
    /\ m_log[Len(m_log)].value # <<>>
    /\ Overfull(m_log[Len(m_log)].key, m_log[Len(m_log)].value)


(***************************************************************************)
(* The disk with its directory and its pool of spare shards: put, del,     *)
(* flush, preallocate, make_snapshot and drop, one call at a time.         *)
(***************************************************************************)
\* put and del calls on the disk with a directory
MaxDirOps == 3
\* preallocate is called while m_spare_shard_counter is below this
MaxSpareCounter == 1
\* the size of the pool at which preallocate returns at once
SPARE_POOL_LIMIT == 16
\* the largest size_t, as far as the arithmetic of preallocate needs it
SIZE_MAX == 2^30

\* a - b on size_t
SizeSub(a, b) == IF a >= b THEN a - b ELSE (SIZE_MAX - (b - a)) + 1

\* shard::free_space
FreeSpace(s) == 100 - UsedSpace(s)

\* preallocate, what one shard adds to num_shards
SpareShardsFor(s) ==
    LET stale == StaleSpace(s)
        free == FreeSpace(s)
    IN IF free <= 25 THEN 0
       ELSE IF free <= 50 THEN 1
       ELSE IF free <= 75 THEN (IF stale >= STALE_LIMIT THEN 1 ELSE 2)
       ELSE (IF stale >= STALE_LIMIT THEN 1 ELSE 4)

RECURSIVE SpareShardsWanted(_, _)
SpareShardsWanted(shards, i) ==
    IF i > Len(shards) THEN 0
    ELSE SpareShardsFor(shards[i].shard) + SpareShardsWanted(shards, i + 1)

RECURSIVE PreallocateLoop(_, _, _, _)
\* preallocate, the loop that creates spare shards: st holds the pool, the
\* counter and the files
PreallocateLoop(i, num_shards, needed, st) ==
    IF i >= num_shards THEN st
    ELSE LET pool == Append(st.spares, st.counter)
         IN PreallocateLoop(
                i + 1,
                Min(num_shards, SizeSub(needed, Len(pool) - i)),
                needed,
                [spares |-> pool, counter |-> st.counter + 1,
                 files |-> st.files \cup {SpareFile(st.counter)}])

\* disk::preallocate: the pool, the counter and the files afterwards, and
\* whether the call left through its one return statement
Preallocate(shards, spares, counter, fs) ==
    LET st == [spares |-> spares, counter |-> counter, files |-> fs]
        wanted == SpareShardsWanted(shards, 1)
        num_shards == Min(wanted, SizeSub(wanted, Len(spares)))
    IN IF Len(spares) >= SPARE_POOL_LIMIT
       THEN [returned |-> TRUE, st |-> st]
       ELSE [returned |-> FALSE,
             st |-> PreallocateLoop(0, num_shards, wanted, st)]

\* the values of hyperdisk::returncode, and one for anything else that a
\* function left without a return statement hands to its caller
ReturnCodes ==
    {"SUCCESS", "NOTFOUND", "WRONGARITY", "DATAFULL", "SEARCHFULL", "HASHFULL",
     "SYNCFAILED", "DROPFAILED", "SPLITFAILED", "MISSINGDISK", "UNDEFINED"}

\* the calls after which the model follows the disk no further: drop, and
\* make_snapshot, which does not return
Finished == last_call.op \in {"drop", "make_snapshot"}

PreallocateCall ==
    \E p \in {Preallocate(m_shards, m_spare_shards, m_spare_shard_counter, files)} :
        /\ m_spare_shard_counter < MaxSpareCounter
        /\ m_spare_shards' = p.st.spares
        /\ m_spare_shard_counter' = p.st.counter
        /\ files' = p.st.files
        /\ \E rc \in IF p.returned THEN {"SUCCESS"} ELSE ReturnCodes :
               last_call' = [op |-> "preallocate", key |-> 0, rc |-> rc,
                             did |-> "none", moved |-> FALSE, at |-> 0,
                             before |-> <<>>]
        /\ UNCHANGED <<m_shards, m_log, f, g, written, nops, dir_exists,
                       shardVars, lockVars, raceVars, callVars>>

\* clean_shard with the directory.  create_tmp_shard takes a spare shard when
\* there is one and renames its file to shard_filename(c); otherwise it
\* creates shard_tmp_filename(c).  clean_shard then renames
\* shard_tmp_filename(c) to shard_filename(c), and returns DROPFAILED without
\* publishing when there is no such file.  r is the flush as it runs when the
\* rename succeeds.
CleanFiles(r, spares, fs) ==
    LET c == r.f.before[r.f.at].coord
        created == IF spares # <<>>
                   THEN (fs \ {SpareFile(Head(spares))}) \cup {ShardFile(c)}
                   ELSE fs \cup {TmpFile(c)}
        pool == IF spares # <<>> THEN Tail(spares) ELSE spares
    IN IF TmpFile(c) \in created
       THEN [shards |-> r.shards, log |-> r.log, f |-> r.f, spares |-> pool,
             files |-> (created \ {TmpFile(c)}) \cup {ShardFile(c)}]
       ELSE [shards |-> r.f.before, log |-> r.log,
             f |-> [r.f EXCEPT !.rc = "DROPFAILED", !.did = "clean_failed"],
             spares |-> pool, files |-> created]

\* split_shard with the directory: each create_shard takes a spare shard when
\* there is one and renames its file, the parent's file is unlinked
SplitFiles(r, spares, fs) ==
    LET c == r.f.before[r.f.at].coord
        four == LastFour(r.shards)
        used == Min(4, Len(spares))
    IN [shards |-> r.shards, log |-> r.log, f |-> r.f,
        spares |-> SubSeq(spares, used + 1, Len(spares)),
        files |-> ((fs \ {SpareFile(spares[i]) : i \in 1..used})
                      \cup {ShardFile(four[i].coord) : i \in 1..4})
                  \ {ShardFile(c)}]

\* disk::flush with the directory and the pool
FlushDisk(shards, log, spares, fs) ==
    With(Flush(shards, log),
         LAMBDA r :
            IF r.f.did = "clean" THEN CleanFiles(r, spares, fs)
            ELSE IF r.f.did = "split" THEN SplitFiles(r, spares, fs)
            ELSE [shards |-> r.shards, log |-> r.log, f |-> r.f,
                  spares |-> spares, files |-> fs])

FlushDiskCall ==
    \E r \in {FlushDisk(m_shards, m_log, m_spare_shards, files)} :
       /\ m_shards' = r.shards
       /\ m_log' = r.log
       /\ m_spare_shards' = r.spares
       /\ files' = r.files
       /\ last_call' = [op |-> "flush", key |-> 0, rc |-> r.f.rc,
                        did |-> r.f.did, moved |-> r.f.moved, at |-> r.f.at,
                        before |-> r.f.before]
       /\ UNCHANGED <<f, g, written, nops, dir_exists, m_spare_shard_counter,
                      shardVars, lockVars, raceVars, callVars>>

\* disk::make_snapshot: an assertion that fails and no return statement.  The
\* call aborts, or hands back a pointer that was never set.
MakeSnapshotOutcomes == {"ABORT", "UNDEFINED"}

MakeSnapshotCall ==
    /\ \E rc \in MakeSnapshotOutcomes :
           last_call' = [op |-> "make_snapshot", key |-> 0, rc |-> rc,
                         did |-> "none", moved |-> FALSE, at |-> 0,
                         before |-> <<>>]
    /\ UNCHANGED <<m_shards, m_log, f, g, written, nops, shardVars, otherVars>>

RECURSIVE DropLoop(_, _, _, _, _)
\* disk::drop, the loop over the shards: unlink fails on a file that is not
\* there and on the files the system refuses (denied)
DropLoop(shards, i, denied, fs, ret) ==
    IF i > Len(shards) THEN [ret |-> ret, files |-> fs]
    ELSE LET file == ShardFile(shards[i].coord)
         IN IF file \in fs /\ i \notin denied
            THEN DropLoop(shards, i + 1, denied, fs \ {file}, ret)
            ELSE DropLoop(shards, i + 1, denied, fs, "DROPFAILED")

\* disk::drop: rmdir is called when every unlink succeeded, and removes a
\* directory that is empty
Drop(shards, denied, fs) ==
    LET r == DropLoop(shards, 1, denied, fs, "SUCCESS")
    IN IF r.ret = "SUCCESS"
       THEN [unlinked |-> TRUE, files |-> r.files, gone |-> r.files = {},
             ret |-> IF r.files = {} THEN "SUCCESS" ELSE "DROPFAILED"]
       ELSE [unlinked |-> FALSE, files |-> r.files, gone |-> FALSE,
             ret |-> "DROPFAILED"]

DropCall ==
    \E denied \in SUBSET (1..Len(m_shards)) :
        \E r \in {Drop(m_shards, denied, files)} :
            /\ files' = r.files
            /\ dir_exists' = ~r.gone
            /\ last_call' = [op |-> "drop", key |-> 0, rc |-> r.ret,
                             did |-> IF r.unlinked THEN "unlinked"
                                     ELSE "unlink_failed",
                             moved |-> FALSE, at |-> 0, before |-> <<>>]
            /\ UNCHANGED <<m_shards, m_log, f, g, written, nops, m_spare_shards,
                           m_spare_shard_counter, shardVars, lockVars, raceVars, callVars>>

NextDisk ==
    /\ ~Finished
    /\ \/ \E key \in Keys, value \in Values : Put(key, value, MaxDirOps)
       \/ \E key \in Keys : Del(key, MaxDirOps)
       \/ FlushDiskCall
       \/ PreallocateCall
       \/ MakeSnapshotCall
       \/ DropCall

SpecDisk == Init /\ [][NextDisk]_vars

\* C15 (codes of flush): in every reachable state of the disk, whatever the
\* WAL, the shards and the pool of spare shards hold, a call to flush
\* returns Success or SplitFailed and no other code.
C15_FlushCodes ==
    last_call.op = "flush" => last_call.rc \in {"SUCCESS", "SPLITFAILED"}


\* what get returns for each key: the records live on the disk
LiveOnDisk == [k \in Keys |-> DiskGet(m_shards, m_log, k)]

\* C16 (snapshot consistency): the disk-level snapshot operation returns a
\* snapshot, and the entries it yields are exactly the records live at the
\* moment it was created (last_call.before holds what the result of
\* make_snapshot yields).
C16_SnapshotConsistency ==
    last_call.op = "make_snapshot" =>
        /\ last_call.rc = "SUCCESS"
        /\ last_call.before = LiveOnDisk

\* C17 (drop): drop tries to unlink the file of every shard of the vector,
\* returns Success exactly when every unlink and the rmdir succeeded, and
\* after a drop whose unlinks all succeeded the directory is gone, also when
\* spare or -tmp files were created earlier.
C17_DropContract ==
    last_call.op = "drop" =>
        /\ last_call.rc = "SUCCESS" <=> (last_call.did = "unlinked" /\ ~dir_exists)
        /\ last_call.did = "unlinked" => ~dir_exists


(***************************************************************************)
(* Claims about deal_with_full_shard.                                      *)
(***************************************************************************)
\* the bits which_to_split can return for mask, whatever the records are
WhichBits(mask) ==
    {2^WhichToSplit(mask, zeros, ones) :
        zeros \in BitCountings, ones \in BitCountings}

\* the coordinates split_shard can make of c
SplitChildrenOf(c) ==
    UNION {{SplitCoordinates(c, sb, pl, pu)[n] : n \in 1..4} :
              sb \in WhichBits(c.secondary_mask),
              pl \in WhichBits(c.primary_mask),
              pu \in WhichBits(c.primary_mask)}

RECURSIVE SplitTreeTo(_)
\* the coordinates of the shards after at most n splits below the first shard
SplitTreeTo(n) ==
    IF n = 0 THEN {Coordinate(0, 0, 0, 0)}
    ELSE LET prev == SplitTreeTo(n - 1)
         IN prev \cup UNION {SplitChildrenOf(c) : c \in prev \cap SplitRegions}

\* every coordinate a shard of the disk can have
SplitTree == SplitTreeTo(HashBits)

\* the decision as the claim gives it
ClaimedDecision(c, stale) ==
    IF stale >= 30 THEN "clean"
    ELSE IF c.primary_mask = UINT32_MAX /\ c.secondary_mask = UINT32_MAX
    THEN "fail"
    ELSE "split"

\* what the flush that has just returned did, when it ended in
\* deal_with_full_shard
LastDecision ==
    IF last_call.did = "clean" THEN "clean"
    ELSE IF last_call.did = "split" THEN "split"
    ELSE IF last_call.rc = "SPLITFAILED" THEN "fail"
    ELSE "none"

NumFullKeys == 5
FullKeys == 1..NumFullKeys

\* what shard::get can return.  After a lookup that probed every slot the
\* call has aborted, or table_value holds whatever was in memory: an offset
\* that reads as not found, or the offset of any bytes
ShardGetOutcomes(s, primary_hash, key) ==
    IF HashLookup(s, primary_hash, key).wrapped
    THEN {Aborted, NotFound}
             \cup {Found(s.data[o].value, s.data[o].version) : o \in DOMAIN s.data}
    ELSE {ShardGet(s, primary_hash, key)}

ShardGetStep(key) ==
    /\ shard_op.calls < MaxShardOps
    /\ \E res \in ShardGetOutcomes(shard, KeyHash(key), key) :
           shard_op' = [op |-> "get", rc |-> res.rc, calls |-> shard_op.calls + 1,
                        copies |-> shard_op.copies, key |-> key, result |-> res]
    /\ UNCHANGED <<shard, diskVars, otherVars>>

NextFull ==
    \/ \E key \in FullKeys, value \in Values :
           ShardPutStep(key, value, shard.m_search_offset + 1)
    \/ \E key \in FullKeys : ShardDelStep(key)
    \/ \E key \in FullKeys : ShardGetStep(key)

SpecFull == InitShard /\ [][NextFull]_vars

\* no live entry of the shard holds key
KeyAbsent(s, key) ==
    \A e \in LiveEntries(s) : s.data[s.search_log[e].data_offset].key # key

\* C19 (get of an absent key): shard get of a key that is not in the shard
\* returns NotFound when the probe reaches an all-zero slot, when it reaches
\* the key's tombstoned slot, and when it visits all HASH_TABLE_ENTRIES slots
\* without finding the key or a zero slot.
C19_GetNotFound ==
    (shard_op.op = "get" /\ KeyAbsent(shard, shard_op.key)) =>
        shard_op.result = NotFound

(***************************************************************************)
(* stale_space against the sum over the invalidated entries.               *)
(***************************************************************************)
\* the length of the record of search-log entry e: up to the next entry's
\* record, or up to m_data_offset for the last entry
RecordLength(s, e) ==
    LET next == IF e + 1 < SEARCH_INDEX_ENTRIES /\ s.search_log[e + 1].data_offset # 0
                THEN s.search_log[e + 1].data_offset
                ELSE s.m_data_offset
    IN next - s.search_log[e].data_offset

\* the entries written and invalidated
StaleEntries(s) ==
    {e \in 0..(SEARCH_INDEX_ENTRIES - 1) :
        s.search_log[e].data_offset # 0 /\ s.search_log[e].invalidator # 0}

RECURSIVE SumLengths(_, _)
SumLengths(s, es) ==
    IF es = {} THEN 0
    ELSE LET e == CHOOSE x \in es : TRUE
         IN RecordLength(s, e) + SumLengths(s, es \ {e})

\* C20 (stale_space): stale_bytes is the sum of the own record lengths of
\* exactly the entries with a nonzero invalidator, stale_count the number of
\* such entries; live entries, the last one included, and an empty shard add
\* nothing; the result is max(100 * stale_bytes / DATA_SEGMENT_SIZE,
\* 100 * stale_count / SEARCH_INDEX_ENTRIES).
C20_StaleSpace ==
    LET r == StaleLoop(shard, 1, shard.search_log[0].data_offset, 0, 0)
        stale_bytes == SumLengths(shard, StaleEntries(shard))
        stale_count == Cardinality(StaleEntries(shard))
    IN /\ r.stale_data = stale_bytes
       /\ r.stale_num = stale_count
       /\ StaleSpace(shard) = Max((100 * stale_bytes) \div DATA_SEGMENT_SIZE,
                                  (100 * stale_count) \div SEARCH_INDEX_ENTRIES)

(***************************************************************************)
(* The contracts of shard put and del.                                     *)
(***************************************************************************)
\* the values put into the shard: those of Values and a short one, so that
\* the search log can fill before the data segment
FullValues == Values \cup {<<NumAttrs + 1>>}

NextCapacity ==
    \/ \E key \in Keys, value \in FullValues :
           ShardPutStep(key, value, shard.m_search_offset + 1)
    \/ \E key \in Keys : ShardDelStep(key)

SpecCapacity == InitShard /\ [][NextCapacity]_vars

\* what a call of shard::put with (key, value) on the shard must do
ShardPutContract(key, value) ==
    LET fits == DataSize(key, value) + shard.m_data_offset <= FILE_SIZE
    IN /\ ~fits => shard_op'.rc = "DATAFULL"
       /\ fits /\ shard.m_search_offset = SEARCH_INDEX_ENTRIES =>
              shard_op'.rc = "SEARCHFULL"
       /\ shard_op'.rc \in {"DATAFULL", "SEARCHFULL"} =>
              /\ shard' = shard
              /\ \A k \in Keys :
                     ShardGet(shard', KeyHash(k), k) = ShardGet(shard, KeyHash(k), k)
       /\ shard_op'.rc = "SUCCESS" =>
              /\ shard'.m_search_offset = shard.m_search_offset + 1
              /\ shard'.m_data_offset % 8 = 0
              /\ shard'.m_data_offset <= FILE_SIZE

\* C21 (put capacity errors): shard put returns DataFull when the record
\* does not fit in the data segment, also when the search log is full as
\* well, and SearchFull when it fits and m_search_offset = S; either way the
\* shard and what get returns are unchanged.  On Success m_search_offset
\* grows by exactly 1 and m_data_offset stays 8-byte aligned and at most
\* FILE_SIZE.
C21_PutCapacity ==
    [][\A key \in Keys, value \in FullValues :
           ShardPutStep(key, value, shard.m_search_offset + 1) =>
               ShardPutContract(key, value)]_vars

\* a put found the search log full with room left in the data segment
C21_Witness ==
    /\ shard_op.op = "put" /\ shard_op.rc = "SEARCHFULL"
    /\ shard.m_search_offset = SEARCH_INDEX_ENTRIES
    /\ shard.m_data_offset + DataSize(1, <<2>>) <= FILE_SIZE

\* the live search-log entries of key
LiveEntriesOf(s, key) ==
    {e \in 0..(SEARCH_INDEX_ENTRIES - 1) :
        /\ s.search_log[e].data_offset # 0
        /\ s.search_log[e].invalidator = 0
        /\ s.data[s.search_log[e].data_offset].key = key}

\* what a call of shard::del with key on the shard must do
ShardDelContract(key) ==
    LET look == HashLookup(shard, KeyHash(key), key)
        slot == look.value
        gone == slot.offset = 0 \/ slot.invalid
    IN /\ gone => shard_op'.rc = "NOTFOUND"
       /\ ~gone /\ FILE_SIZE - shard.m_data_offset < 8 => shard_op'.rc = "DATAFULL"
       /\ ~gone /\ FILE_SIZE - shard.m_data_offset >= 8 => shard_op'.rc = "SUCCESS"
       /\ shard_op'.rc \in {"NOTFOUND", "DATAFULL"} => shard' = shard
       /\ shard_op'.rc = "SUCCESS" =>
              /\ shard'.m_data_offset = shard.m_data_offset + 8
              /\ shard'.m_search_offset = shard.m_search_offset
              /\ \E e \in LiveEntriesOf(shard, key) :
                     /\ LiveEntriesOf(shard, key) = {e}
                     /\ shard'.search_log =
                            [shard.search_log EXCEPT ![e].invalidator = shard.m_data_offset]
              /\ shard'.hash_table =
                     [shard.hash_table EXCEPT ![look.entry] =
                         [hash |-> KeyHash(key), offset |-> slot.offset, invalid |-> TRUE]]
              /\ ShardGet(shard', KeyHash(key), key) = NotFound
              /\ ShardDel(shard', KeyHash(key), key).rc = "NOTFOUND"

\* C22 (del): shard del returns NotFound and changes nothing when the key's
\* slot is empty or tombstoned, so a second del with no put between returns
\* NotFound; it returns DataFull and changes nothing when fewer than 8 bytes
\* remain; on Success it consumes 8 bytes, sets the invalidator of the key's
\* live search-log entry to the old m_data_offset and tombstones the slot,
\* which keeps its hash and offset; a get that follows returns NotFound.
C22_DelContract ==
    [][\A key \in Keys : ShardDelStep(key) => ShardDelContract(key)]_vars

\* a del of a live key found fewer than 8 bytes left
C22_Witness ==
    /\ shard_op.op = "del" /\ shard_op.rc = "DATAFULL"
    /\ FILE_SIZE - shard.m_data_offset < 8
    /\ \E k \in Keys : LiveEntriesOf(shard, k) # {}

\* the search-log entries of key, live or stale
EntriesOf(s, key) ==
    {e \in 0..(SEARCH_INDEX_ENTRIES - 1) :
        /\ s.search_log[e].data_offset # 0
        /\ s.data[s.search_log[e].data_offset].key = key}

\* the record of the latest put of key
LatestPut(s, key) ==
    s.data[s.search_log[CHOOSE e \in EntriesOf(s, key) :
                            \A o \in EntriesOf(s, key) : o <= e].data_offset]

\* at most one live entry per key, and one exactly when get finds the key
OneLiveEntry ==
    \A k \in Keys :
        /\ Cardinality(LiveEntriesOf(shard, k)) <= 1
        /\ LiveEntriesOf(shard, k) # {} <=> ShardGet(shard, KeyHash(k), k).rc = "SUCCESS"
        /\ LiveEntriesOf(shard, k) # {} =>
               /\ LiveEntriesOf(shard, k) = {CHOOSE e \in EntriesOf(shard, k) :
                                                \A o \in EntriesOf(shard, k) : o <= e}
               /\ ShardGet(shard, KeyHash(k), k) =
                      Found(LatestPut(shard, k).value, LatestPut(shard, k).version)

\* a put over a live key stales the key's previous entry with the offset of
\* the new record
PutStalesPrevious ==
    \A key \in Keys, value \in FullValues :
        (/\ ShardPutStep(key, value, shard.m_search_offset + 1)
         /\ shard_op'.rc = "SUCCESS"
         /\ LiveEntriesOf(shard, key) # {}) =>
            \A e \in LiveEntriesOf(shard, key) :
                /\ shard'.search_log[e].invalidator = shard.m_data_offset
                /\ shard'.search_log[shard.m_search_offset].data_offset = shard.m_data_offset

\* C23 (one live entry per key): a put over a key that is live in the shard
\* sets the invalidator of the key's previous search-log entry to the offset
\* of the new record, so after any sequence of put and del every key has at
\* most one live search-log entry, and it has one exactly when get of the
\* key returns Found, with the value and version of the latest put.
C23_OneLiveEntry == []OneLiveEntry /\ [][PutStalesPrevious]_vars

\* a key put twice: its first entry is stale with the second record's offset
C23_Witness ==
    \E k \in Keys :
        /\ Cardinality(EntriesOf(shard, k)) >= 2
        /\ LiveEntriesOf(shard, k) # {}
        /\ \E e \in EntriesOf(shard, k), l \in LiveEntriesOf(shard, k) :
               shard.search_log[e].invalidator = shard.search_log[l].data_offset

(***************************************************************************)
(* The routing of flush, said in one piece per WAL entry.                  *)
(***************************************************************************)
RECURSIVE Ascending(_)
\* the members of a set of numbers in ascending order
Ascending(set) ==
    IF set = {} THEN <<>>
    ELSE LET x == CHOOSE x \in set : \A y \in set : x <= y
         IN <<x>> \o Ascending(set \ {x})

\* WAL entry e routed over shards: the calls in their order, the shards
\* afterwards, and the index of the shard found full (0 if none)
RoutedEntry(shards, e) ==
    LET P == {i \in 1..Len(shards) : PrimaryContains(shards[i].coord, e.coord)}
        DelAt(i) == ShardDel(shards[i].shard, e.coord.primary_hash, e.key)
        stops == {i \in P : DelAt(i).rc # "NOTFOUND"}
        stop == IF stops = {} THEN 0 ELSE CHOOSE i \in stops : \A o \in stops : i <= o
        dels == Ascending({i \in P : stop = 0 \/ i <= stop})
        del_calls == [n \in 1..Len(dels) |-> FlushCalled("del", dels[n], e)]
        del_full == stop # 0 /\ DelAt(stop).rc # "SUCCESS"
        after_del == IF stop # 0 /\ ~del_full
                     THEN [shards EXCEPT ![stop].shard = DelAt(stop).shard]
                     ELSE shards
        C == {i \in 1..Len(shards) : Contains(shards[i].coord, e.coord)}
        target == CHOOSE i \in C : \A o \in C : o <= i
        put == ShardPut(after_del[target].shard, e.coord.primary_hash,
                        e.coord.secondary_hash, e.key, e.value, e.version)
    IN IF del_full
       THEN [calls |-> del_calls \o <<FlushCalled("deal", stop, e)>>,
             shards |-> shards, full |-> stop]
       ELSE IF e.coord.secondary_mask = 0
       THEN [calls |-> del_calls \o <<FlushCalled("remove", 0, e)>>,
             shards |-> after_del, full |-> 0]
       ELSE IF put.rc # "SUCCESS"
       THEN [calls |-> del_calls \o <<FlushCalled("put", target, e),
                                      FlushCalled("deal", target, e)>>,
             shards |-> after_del, full |-> target]
       ELSE [calls |-> del_calls \o <<FlushCalled("put", target, e),
                                      FlushCalled("remove", 0, e)>>,
             shards |-> [after_del EXCEPT ![target].shard = put.shard],
             full |-> 0]

RECURSIVE RoutedRun(_, _, _)
\* the first n entries of log routed in append order, up to a full shard
RoutedRun(shards, log, n) ==
    IF n = 0 \/ log = <<>> THEN [calls |-> <<>>, shards |-> shards, log |-> log]
    ELSE With(RoutedEntry(shards, Head(log)),
              LAMBDA r :
                IF r.full # 0
                THEN [calls |-> r.calls,
                      shards |-> DealWithFullShard(r.shards, r.full).shards,
                      log |-> log]
                ELSE With(RoutedRun(r.shards, Tail(log), n - 1),
                          LAMBDA rest : [rest EXCEPT !.calls = r.calls \o @]))

\* C24 (flush routing): for each WAL entry, in append order, flush calls
\* shard del on the shards whose coordinate primary-contains the entry's, in
\* vector order, and stops at the first Success; then, if the entry is a put,
\* it puts the record into exactly one shard, the last in vector order whose
\* coordinate contains the entry's; a delete entry is put into no shard; only
\* then is the entry removed from the WAL.
C24_FlushRouting ==
    [][FlushCall =>
          With(Flush(m_shards, m_log),
               LAMBDA r :
                 With(RoutedRun(m_shards, m_log, FlushLimit),
                      LAMBDA c : /\ r.call = c.calls
                                 /\ m_shards' = c.shards
                                 /\ m_log' = c.log))]_vars

\* a flush on four shards moved a record from one shard to another
C24_Witness ==
    /\ last_call.op = "flush" /\ last_call.did = "none"
    /\ last_call.moved
    /\ Len(m_shards) = 4

(***************************************************************************)
(* The disk with flush called again and again.  The daemon calls flush     *)
(* from a loop of its own: a flush that can change the state is not put    *)
(* off forever.                                                            *)
(***************************************************************************)
SpecLive == Init /\ [][Next]_vars /\ WF_vars(FlushCall)

\* WAL entries removed so far
Removed == nops - Len(m_log)

\* the last flush found a shard full and returned from deal_with_full_shard
FullShardReturn ==
    last_call.op = "flush" /\ (last_call.did # "none" \/ last_call.rc # "SUCCESS")

\* a flush that ends in deal_with_full_shard leaves the entry it was at the
\* oldest of the WAL and makes no call after it
DealKeepsEntry ==
    FlushCall =>
        With(Flush(m_shards, m_log),
             LAMBDA r :
               \A n \in 1..Len(r.call) :
                   r.call[n].op = "deal" =>
                       /\ n = Len(r.call)
                       /\ m_log' # <<>> /\ Head(m_log') = r.call[n].entry
                       /\ \E d \in 0..Len(m_log) :
                              m_log' = SubSeq(m_log, d + 1, Len(m_log))
                       /\ InWal(m_log', r.call[n].entry.key))

\* C25 (full shard): when a shard del or put inside flush reports a capacity
\* error, flush calls deal_with_full_shard on that shard and returns at once:
\* the current WAL entry is not removed and no later entry is applied; the
\* entry stays the oldest of the WAL, and a later flush applies it.
C25_FullShardRetry ==
    /\ [][DealKeepsEntry]_vars
    /\ \A n \in 0..(MaxOps - 1) :
           (FullShardReturn /\ Removed = n) ~> (Removed > n)

(***************************************************************************)
(* which_to_split on its own, on words wide enough for a choice among      *)
(* several bits.  split_shard passes a mask and, per bit the mask leaves   *)
(* free, how many of the shard's records have the bit clear and set; the   *)
(* counts of the masked bits stay zero.  The disk starts with empty masks  *)
(* and a mask only grows by the bit which_to_split returned.               *)
(***************************************************************************)
\* width of the words given to which_to_split alone (32 in the program)
WhichWidth == 4
\* records counted by split_shard
MaxCounted == 3

\* the masks split_shard can pass: bit 0 is set in none of them
WhichMasks == {mask \in 0..(2^WhichWidth - 1) : BitOf(mask, 0) = 0}

\* split_shard, the counting: n records, ones[j] of them with bit j set
CountedZeros(mask, n, ones) ==
    [j \in 0..(WhichWidth - 1) |-> IF BitOf(mask, j) = 1 THEN 0 ELSE n - ones[j]]
CountedOnes(mask, ones) ==
    [j \in 0..(WhichWidth - 1) |-> IF BitOf(mask, j) = 1 THEN 0 ELSE ones[j]]

\* one call of which_to_split
WhichCall(mask, zeros, ones) ==
    /\ which' = [mask |-> mask, zeros |-> zeros, ones |-> ones,
                 pos |-> WhichToSplitIn(WhichWidth, mask, zeros, ones)]
    /\ UNCHANGED <<shardVars, diskVars, lockVars, raceVars, dirVars, prep>>

NextWhich ==
    \E mask \in WhichMasks, n \in 0..MaxCounted :
        \E ones \in [0..(WhichWidth - 1) -> 0..n] :
            WhichCall(mask, CountedZeros(mask, n, ones), CountedOnes(mask, ones))

SpecWhich == Init /\ [][NextWhich]_vars

\* |ones[b] - zeros[b]|
Imbalance(b) ==
    IF which.ones[b] >= which.zeros[b] THEN which.ones[b] - which.zeros[b]
    ELSE which.zeros[b] - which.ones[b]

\* C27 (which_to_split): the result is, among the bit positions 1 .. 31 that
\* are not set in mask, the one that minimises |ones[b] - zeros[b]|, the
\* lowest such on ties; bit position 0 is never chosen, for every mask and
\* every pair of count arrays.
C27_WhichToSplit ==
    which # NotCalled =>
        /\ which.pos # 0
        /\ which.pos \in 1..(WhichWidth - 1)
        /\ BitOf(which.mask, which.pos) = 0
        /\ \A b \in 1..(WhichWidth - 1) :
               BitOf(which.mask, b) = 0 =>
                   \/ Imbalance(which.pos) < Imbalance(b)
                   \/ Imbalance(which.pos) = Imbalance(b) /\ which.pos <= b

(***************************************************************************)
(* The coordinates split_shard makes.                                      *)
(***************************************************************************)
\* the number of bits set in a word
PopCount(x) == Cardinality({b \in 0..(HashBits - 1) : BitOf(x, b) = 1})

\* mask has the bits of parent and one more
OneMoreBit(mask, parent) ==
    BitAnd(mask, parent) = parent /\ PopCount(mask) = PopCount(parent) + 1

\* four coordinates, each strictly narrower than c by one bit of each mask,
\* no two the same
StrictlyNarrower(four, c) ==
    /\ \A n \in 1..4 :
           /\ OneMoreBit(four[n].primary_mask, c.primary_mask)
           /\ OneMoreBit(four[n].secondary_mask, c.secondary_mask)
           /\ four[n] # c
    /\ \A n \in 1..4, o \in 1..4 : n # o => four[n] # four[o]

\* on every coordinate of the split tree that can be split, with every bit
\* which_to_split can return: the bits are free and the children narrower
SplitTreeNarrows ==
    \A c \in SplitTree \cap SplitRegions :
        /\ WhichBits(c.secondary_mask) \subseteq FreeBits(c.secondary_mask)
        /\ WhichBits(c.primary_mask) \subseteq FreeBits(c.primary_mask)
        /\ \A sb \in WhichBits(c.secondary_mask) :
               \A pl \in WhichBits(c.primary_mask), pu \in WhichBits(c.primary_mask) :
                   StrictlyNarrower(SplitCoordinates(c, sb, pl, pu), c)

\* C28 (split narrows): for every shard on which deal_with_full_shard can
\* call split_shard, the secondary bit chosen is not set in the shard's
\* secondary mask and the two primary bits chosen are not set in its primary
\* mask, so each of the four child coordinates has a primary mask and a
\* secondary mask with exactly one more bit than the parent's, and no child
\* coordinate equals the parent's or another child's.  Stated for the split
\* made by the flush that has just returned and for every coordinate a shard
\* of the disk can have, with every bit which_to_split can return for it.
C28_SplitNarrows ==
    /\ last_call.op = "flush" /\ last_call.did = "split" =>
           StrictlyNarrower([n \in 1..4 |-> LastFour(m_shards)[n].coord],
                            last_call.before[last_call.at].coord)
    /\ \A i \in 1..Len(m_shards) : m_shards[i].coord \in SplitTree
    /\ SplitTreeNarrows

\* a flush has just split the first shard, and a child of it can be split
\* again on the one bit its masks leave free
C28_Witness ==
    /\ last_call.op = "flush" /\ last_call.did = "split"
    /\ last_call.before[last_call.at].coord = Coordinate(0, 0, 0, 0)
    /\ \E i \in 1..Len(m_shards) :
           /\ m_shards[i].coord \in SplitRegions
           /\ m_shards[i].coord.primary_mask # 0
           /\ m_shards[i].coord.secondary_mask # 0

(***************************************************************************)
(* Claims about preallocate and clean_shard with the directory.            *)
(***************************************************************************)
\* C29 (preallocate): preallocate does nothing when the spare pool holds 16
\* or more spares; otherwise, with num_shards the sum of the per-shard
\* heuristic, it creates num_shards - |pool| new spares when that is positive
\* and none otherwise, never leaves the pool with more than 16 spares, and
\* returns Success.
C29_Preallocate ==
    [][PreallocateCall =>
          LET pool == Len(m_spare_shards)
              num_shards == SpareShardsWanted(m_shards, 1)
              created == Len(m_spare_shards') - pool
          IN /\ pool >= 16 => created = 0 /\ files' = files
             /\ pool < 16 =>
                    created = IF num_shards > pool THEN num_shards - pool ELSE 0
             /\ Cardinality(files') - Cardinality(files) = created
             /\ Len(m_spare_shards') <= 16
             /\ last_call'.rc = "SUCCESS"]_vars

\* the flush before this state called clean_shard
CleanAttempted ==
    last_call.op = "flush" /\ last_call.did \in {"clean", "clean_failed"}

\* C30 (clean_shard and the -tmp file): clean_shard(i) builds the replacement
\* under the -tmp name of C_i, leaves the canonical file alone until the copy
\* is complete, renames the -tmp file to the canonical name and publishes the
\* new vector, with a fresh replacement shard and with one taken from the
\* pool of spare shards alike: after it the rename has succeeded, no -tmp
\* file of C_i remains and the canonical file is there.
C30_CleanShard ==
    CleanAttempted =>
        /\ last_call.did = "clean"
        /\ last_call.rc = "SUCCESS"
        /\ TmpFile(last_call.before[last_call.at].coord) \notin files
        /\ ShardFile(last_call.before[last_call.at].coord) \in files


(***************************************************************************)
(* split_shard when the system refuses a call: create_shard throws, the    *)
(* guards of the children made before it unlink their files, and           *)
(* split_shard returns SPLITFAILED.                                        *)
(***************************************************************************)
\* the calls of create_shard that can fail: renameat of a spare shard, and
\* in shard::create the openat, or the writev, fsync and mapping after it
SplitSteps == {"rename", "open", "write"}

\* create_shard takes a spare shard for child k when the pool still holds one
ChildFromSpare(spares, k) == k <= Len(spares)

\* the steps create_shard goes through for child k
ChildSteps(spares, k) ==
    IF ChildFromSpare(spares, k) THEN {"rename"} ELSE {"open", "write"}

\* what is left of child k when its create_shard throws at step: the file
\* that shard::create opened stays, since the guard of the child is made
\* after create_shard has returned.  ChildLeftNever unlinks it as well.
ChildLeftNever(step) == FALSE
ChildLeft(step) == step = "write"

\* split_shard with the directory when create_shard of child k throws at
\* step.  r is the flush as it runs when split_shard succeeds.
SplitFailFiles(r, spares, fs, k, step) ==
    LET four == LastFour(r.shards)
        popped == Min(k, Len(spares))
        renamed == Min(k - 1, Len(spares))
        child == ShardFile(four[k].coord)
        made == {ShardFile(four[i].coord) : i \in 1..(k - 1)}
        kept == (fs \ {SpareFile(spares[i]) : i \in 1..renamed}) \ made
    IN [shards |-> r.f.before, log |-> r.log,
        f |-> [r.f EXCEPT !.rc = "SPLITFAILED", !.did = "split_failed"],
        spares |-> SubSeq(spares, popped + 1, Len(spares)),
        files |-> IF ChildFromSpare(spares, k) THEN kept
                  ELSE IF ChildLeft(step) THEN kept \cup {child}
                  ELSE kept \ {child}]

\* flush, with a split_shard in which create_shard of child k throws
SplitFailCall ==
    \E r \in {Flush(m_shards, m_log)} :
       /\ r.f.did = "split"
       /\ \E k \in 1..4 :
            \E step \in ChildSteps(m_spare_shards, k) :
              \E x \in {SplitFailFiles(r, m_spare_shards, files, k, step)} :
                 /\ m_shards' = x.shards
                 /\ m_log' = x.log
                 /\ m_spare_shards' = x.spares
                 /\ files' = x.files
                 /\ last_call' = [op |-> "flush", key |-> 0, rc |-> x.f.rc,
                                  did |-> x.f.did, moved |-> x.f.moved,
                                  at |-> x.f.at, before |-> x.f.before]
       /\ UNCHANGED <<f, g, written, nops, dir_exists, m_spare_shard_counter,
                      shardVars, lockVars, raceVars, callVars>>

\* put and del calls on the disk whose split_shard can fail
MaxSplitOps == 2

NextSplit ==
    \/ \E key \in Keys, value \in Values : Put(key, value, MaxSplitOps)
    \/ \E key \in Keys : Del(key, MaxSplitOps)
    \/ FlushDiskCall
    \/ PreallocateCall
    \/ SplitFailCall

SpecSplit == Init /\ [][NextSplit]_vars

\* the files of the children split_shard was making
ChildFiles(shards, shard_num) ==
    {ShardFile(SplitShard(shards, shard_num)[i].coord) :
        i \in Len(shards)..(Len(shards) + 3)}

\* C31 (rollback of a failed split): when creating a child fails in
\* split_shard, flush returns SplitFailed, the published vector is the one
\* before the call, the file of the parent is still there, no file of a
\* child is left in the directory, and get returns for every key what it
\* returned before.
C31_SplitRollback ==
    [][SplitFailCall =>
        /\ last_call'.rc = "SPLITFAILED"
        /\ m_shards' = last_call'.before
        /\ ShardFile(m_shards'[last_call'.at].coord) \in files'
        /\ ChildFiles(m_shards', last_call'.at) \cap files' = {}
        /\ \A key \in Keys :
              /\ DiskGet(m_shards', m_log', key)
                    = DiskGet(last_call'.before, m_log, key)
              /\ DiskGet(m_shards', m_log', key).rc
                    = DiskGet(m_shards, m_log, key).rc
              /\ DiskGet(m_shards', m_log', key).value
                    = DiskGet(m_shards, m_log, key).value]_vars


(***************************************************************************)
(* atomic_group_request::prepare.  group_request::prepare and              *)
(* client::prepare_funcs are called for what they return: a code, the      *)
(* number of arguments accepted before the first one rejected, or an       *)
(* exception.                                                              *)
(***************************************************************************)
\* arguments of each kind in a call of prepare
MaxArgs == 2
\* width of size_t (64 in the program) and of int (32 in the program)
SIZE_BITS == 16
INT_BITS == 8

\* an integer of -2^SIZE_BITS .. 2^SIZE_BITS as a size_t
ToSizeT(n) == (n + 2^SIZE_BITS) % 2^SIZE_BITS

\* a size_t converted to int
ToInt(u) ==
    IF u % 2^INT_BITS >= 2^(INT_BITS - 1)
    THEN (u % 2^INT_BITS) - 2^INT_BITS
    ELSE u % 2^INT_BITS

\* "return -2 - selection_sz - idx": the arithmetic is on size_t, the result
\* is converted to int.  PrepareAttrsCodeIdx leaves selection_sz out.
PrepareAttrsCodeIdx(selection_sz, idx) == ToInt(ToSizeT(ToSizeT(-2) - idx))
PrepareAttrsCode(selection_sz, idx) ==
    ToInt(ToSizeT(ToSizeT(ToSizeT(-2) - selection_sz) - idx))

\* "return -2 - selection_sz - attrs_sz - idx"
PrepareMapAttrsCode(selection_sz, attrs_sz, idx) ==
    ToInt(ToSizeT(ToSizeT(ToSizeT(ToSizeT(-2) - selection_sz) - attrs_sz) - idx))

\* what group_request::prepare returns for selection_sz checks: 0, -1, or
\* the code of a rejected check
GroupResults(selection_sz) == (-1 - selection_sz)..0

\* the calls of prepare that can throw
PrepareThrows == {"none", "get_schema", "group_request", "attrs", "mapattrs"}

\* the status the calls made by prepare can leave behind
CalleeStatus == {"SUCCESS", "UNKNOWNATTR", "WRONGTYPE"}

\* atomic_group_request::prepare: group is the result of
\* group_request::prepare, attrs_idx and mapattrs_idx are the results of the
\* two calls of prepare_funcs, thrown is the call that throws when it is
\* reached, status is what the calls leave in status
Prepare(selection_sz, attrs_sz, mapattrs_sz, group, attrs_idx, mapattrs_idx, thrown, status) ==
    IF thrown \in {"get_schema", "group_request"}
    THEN [ret |-> -1, status |-> "UNKNOWNSPACE"]
    ELSE IF group < 0
    THEN [ret |-> group, status |-> status]
    ELSE IF thrown = "attrs"
    THEN [ret |-> -1, status |-> "UNKNOWNSPACE"]
    ELSE IF attrs_idx < attrs_sz
    THEN [ret |-> PrepareAttrsCode(selection_sz, attrs_idx), status |-> status]
    ELSE IF thrown = "mapattrs"
    THEN [ret |-> -1, status |-> "UNKNOWNSPACE"]
    ELSE IF mapattrs_idx < mapattrs_sz
    THEN [ret |-> PrepareMapAttrsCode(selection_sz, attrs_sz, mapattrs_idx),
          status |-> status]
    ELSE [ret |-> 0, status |-> status]

\* one call of prepare on a request; the model follows the request no
\* further
PrepareCall ==
    /\ ~prep.called
    /\ \E selection_sz \in 0..MaxArgs, attrs_sz \in 0..MaxArgs,
          mapattrs_sz \in 0..MaxArgs, thrown \in PrepareThrows,
          status \in CalleeStatus :
         \E group \in GroupResults(selection_sz), attrs_idx \in 0..attrs_sz,
            mapattrs_idx \in 0..mapattrs_sz :
           \E r \in {Prepare(selection_sz, attrs_sz, mapattrs_sz, group, attrs_idx,
                             mapattrs_idx, thrown, status)} :
              /\ prep' = [called |-> TRUE, selection_sz |-> selection_sz,
                          attrs_sz |-> attrs_sz, mapattrs_sz |-> mapattrs_sz,
                          group |-> group, attrs_idx |-> attrs_idx,
                          mapattrs_idx |-> mapattrs_idx, thrown |-> thrown,
                          ret |-> r.ret, status |-> r.status]
              /\ UNCHANGED <<shardVars, diskVars, lockVars, raceVars, dirVars,
                             which>>

NextPrepare == PrepareCall

SpecPrepare == Init /\ [][NextPrepare]_vars

\* the call threw before group_request::prepare had returned
ThrownEarly == prep.thrown \in {"get_schema", "group_request"}

\* the selection was accepted and the first prepare_funcs was reached
AttrsReached == ~ThrownEarly /\ prep.group >= 0

\* every attribute was accepted and the second prepare_funcs was reached
MapAttrsReached ==
    AttrsReached /\ prep.thrown # "attrs" /\ prep.attrs_idx = prep.attrs_sz

\* some call threw
PrepareThrew ==
    \/ ThrownEarly
    \/ AttrsReached /\ prep.thrown = "attrs"
    \/ MapAttrsReached /\ prep.thrown = "mapattrs"

\* C32 (codes of prepare): prepare returns 0 when the selection, the
\* attributes and the map attributes are all accepted; -2 - selection_sz -
\* idx when attribute idx is the first one rejected; -2 - selection_sz -
\* attrs_sz - idx when map attribute idx is; a negative result of
\* group_request::prepare as it is; and -1 with status UNKNOWNSPACE after an
\* exception.  The codes of the attributes lie in -1 - selection_sz -
\* attrs_sz .. -2 - selection_sz and those of the map attributes below them,
\* so the code names the argument.
C32_PrepareCode ==
    prep.called =>
        /\ PrepareThrew => prep.ret = -1 /\ prep.status = "UNKNOWNSPACE"
        /\ (~ThrownEarly /\ prep.group < 0) => prep.ret = prep.group
        /\ (AttrsReached /\ prep.thrown # "attrs"
               /\ prep.attrs_idx < prep.attrs_sz) =>
              /\ prep.ret = -2 - prep.selection_sz - prep.attrs_idx
              /\ prep.ret \in (-1 - prep.selection_sz - prep.attrs_sz)
                                ..(-2 - prep.selection_sz)
        /\ (MapAttrsReached /\ prep.thrown # "mapattrs"
               /\ prep.mapattrs_idx < prep.mapattrs_sz) =>
              /\ prep.ret = -2 - prep.selection_sz - prep.attrs_sz
                               - prep.mapattrs_idx
              /\ prep.ret \in (-1 - prep.selection_sz - prep.attrs_sz
                                  - prep.mapattrs_sz)
                                ..(-2 - prep.selection_sz - prep.attrs_sz)
        /\ (MapAttrsReached /\ prep.thrown # "mapattrs"
               /\ prep.mapattrs_idx = prep.mapattrs_sz) => prep.ret = 0

\* a call with a selection and attributes in which the second map attribute
\* was rejected
C32_Witness ==
    /\ prep.called
    /\ prep.selection_sz > 0 /\ prep.attrs_sz > 0
    /\ MapAttrsReached /\ prep.thrown = "none"
    /\ prep.mapattrs_idx = 1 /\ prep.mapattrs_sz = 2
    /\ prep.ret = -5 - prep.mapattrs_idx


(***************************************************************************)
(* The regions of the published vector.                                    *)
(***************************************************************************)
\* the shards of the vector whose coordinate contains the point (ph, sh)
Holders(shards, ph, sh) ==
    {i \in 1..Len(shards) :
        Contains(shards[i].coord, Coordinate(UINT32_MAX, ph, UINT32_MAX, sh))}

\* every point of the hash space lies in one shard of the published vector
Partitioned ==
    \A ph \in Words, sh \in Words : Cardinality(Holders(m_shards, ph, sh)) = 1

\* on every coordinate of the split tree that can be split, with every bit
\* which_to_split can return, a point of the parent lies in one child and
\* any other point in none
SplitTreeTiles ==
    \A c \in SplitTree \cap SplitRegions :
        \A sb \in WhichBits(c.secondary_mask) :
            \A pl \in WhichBits(c.primary_mask), pu \in WhichBits(c.primary_mask) :
                \A ph \in Words, sh \in Words :
                    LET pt == Coordinate(UINT32_MAX, ph, UINT32_MAX, sh)
                    IN Cardinality({n \in 1..4 :
                           Contains(SplitCoordinates(c, sb, pl, pu)[n], pt)})
                       = IF Contains(c, pt) THEN 1 ELSE 0

\* flush removes a put entry straight after the shard put that took it
RemovedWasInserted ==
    FlushCall =>
        With(Flush(m_shards, m_log),
             LAMBDA r :
               \A n \in 1..Len(r.call) :
                   (r.call[n].op = "remove" /\ EntryIsPut(r.call[n].entry)) =>
                       /\ n > 1
                       /\ r.call[n - 1].op = "put"
                       /\ r.call[n - 1].entry = r.call[n].entry
                       /\ r.call[n - 1].at
                            \in Holders(m_shards,
                                        r.call[n].entry.coord.primary_hash,
                                        r.call[n].entry.coord.secondary_hash))

\* C33 (regions partition the space): after any flushes, cleans and splits
\* from the initial vector [(0,0,0,0)], every fully specified point
\* (UINT32_MAX, ph, UINT32_MAX, sh) is contained by exactly one coordinate
\* of the published vector, on the disk as it runs and on every coordinate
\* split_shard can reach; so the put loop of flush finds a shard for every
\* put entry, and no put entry leaves the WAL without the shard put that
\* inserted it.
C33_RegionPartition ==
    /\ [](Partitioned /\ SplitTreeTiles)
    /\ [][RemovedWasInserted]_vars

\* a flush after a split has put an entry into one of the four children
C33_Witness ==
    /\ Len(m_shards) = 4
    /\ last_call.op = "flush" /\ last_call.did = "none"
    /\ m_log = <<>>
    /\ \E i \in 1..4 : LiveRecords(m_shards[i].shard) # {}
    /\ Partitioned


(***************************************************************************)
(* The copies of a key in the shards of the published vector.              *)
(***************************************************************************)
\* the shards of the vector in which shard get finds key
LiveIn(shards, key) ==
    {i \in 1..Len(shards) :
        ShardGet(shards[i].shard, KeyHash(key), key).rc = "SUCCESS"}

\* the vector in the opposite order
Reversed(shards) == [i \in 1..Len(shards) |-> shards[Len(shards) + 1 - i]]

\* the walk of disk::get over the shards
Walk(shards, key) == ShardWalk(shards, GetCoordinateKey(key), key, 1, NotFound)

\* each key is live in at most one shard, and the walk of get finds that
\* copy from either end of the vector
SingleLiveCopy ==
    \A key \in Keys :
        /\ Cardinality(LiveIn(m_shards, key)) <= 1
        /\ Walk(Reversed(m_shards), key) = Walk(m_shards, key)
        /\ \A i \in LiveIn(m_shards, key) :
               Walk(m_shards, key) = ShardGet(m_shards[i].shard, KeyHash(key), key)
        /\ LiveIn(m_shards, key) = {} => Walk(m_shards, key) = NotFound

\* when flush returns after removing an entry, the key of the entry is live
\* in no shard if the entry was a delete, and in one shard with the value of
\* the entry if it was a put
LastEntryApplied ==
    FlushCall =>
        With(Flush(m_shards, m_log),
             LAMBDA r :
               (r.call # <<>> /\ r.call[Len(r.call)].op = "remove") =>
                   With(r.call[Len(r.call)].entry,
                        LAMBDA e :
                          IF EntryIsPut(e)
                          THEN /\ Cardinality(LiveIn(m_shards', e.key)) = 1
                               /\ Walk(m_shards', e.key) = Found(e.value, e.version)
                          ELSE LiveIn(m_shards', e.key) = {}))

\* C34 (single live copy): between the entries flush applies, each key is
\* live in at most one shard of the published vector, so the walk of get
\* over the shards gives the same result in either order, and the delete
\* loop of flush, which stops at the first Success, leaves no live copy.
C34_SingleLiveCopy ==
    /\ []SingleLiveCopy
    /\ [][LastEntryApplied]_vars

\* after a split, a flush has applied a delete entry for a key that was live
\* in one of the children, beside another key that is live
C34_Witness ==
    /\ Len(m_shards) = 4
    /\ last_call.op = "flush" /\ last_call.did = "none"
    /\ m_log = <<>>
    /\ \E key \in Keys :
          /\ written[key].op = "del"
          /\ written[key].prev_op = "put"
          /\ LiveIn(m_shards, key) = {}
    /\ \E key \in Keys : Cardinality(LiveIn(m_shards, key)) = 1


(***************************************************************************)
(* Progress of flush.                                                      *)
(***************************************************************************)
\* shard t has more room than shard s: fewer bytes of data or fewer entries
\* of the search log in use, and no more of either
MoreRoom(t, s) ==
    /\ t.m_data_offset <= s.m_data_offset
    /\ t.m_search_offset <= s.m_search_offset
    /\ t.m_data_offset < s.m_data_offset \/ t.m_search_offset < s.m_search_offset

\* a flush that finds the WAL not empty and returns Success has removed an
\* entry, or replaced the full shard by one with more room or by four
\* children
FlushAdvances ==
    (FlushCall /\ m_log # <<>> /\ last_call'.rc = "SUCCESS") =>
        \/ Len(m_log') < Len(m_log)
        \/ /\ last_call'.did = "clean"
           /\ MoreRoom(m_shards'[last_call'.at].shard,
                       last_call'.before[last_call'.at].shard)
        \/ /\ last_call'.did = "split"
           /\ Len(m_shards') = Len(last_call'.before) + 3

\* C35 (progress of flush): every flush that finds the WAL not empty and
\* returns Success has removed at least one entry or published a vector in
\* which the full shard is replaced by one with strictly more free space or
\* by four children; and when flush is called again and again, then time and
\* again the WAL is empty, a call has reported SplitFailed, or a put or del
\* has been appended since the last flush.
C35_FlushProgress ==
    /\ [][FlushAdvances]_vars
    /\ []<>(\/ m_log = <<>>
            \/ last_call.rc = "SPLITFAILED"
            \/ last_call.op \in {"put", "del"})


(***************************************************************************)
(* One shard under put and del, closed and opened again.  The file holds   *)
(* the hash table, the search log and the data; m_search_offset and        *)
(* m_data_offset are fields of the object, which shard::open works out     *)
(* from the file.                                                          *)
(***************************************************************************)
RECURSIVE OpenLoop(_, _, _)
\* shard::open, the loop over the search log: the entries in use end at the
\* first one whose offset is zero
OpenLoop(s, m_search_offset, m_data_offset) ==
    IF m_search_offset < SEARCH_INDEX_ENTRIES
         /\ s.search_log[m_search_offset].data_offset # 0
    THEN OpenLoop(s, m_search_offset + 1,
                  s.search_log[m_search_offset].data_offset)
    ELSE [m_search_offset |-> m_search_offset, m_data_offset |-> m_data_offset]

\* shard::open: m_data_offset is put past the record of the last entry
Open(s) ==
    With(OpenLoop(s, 0, INDEX_SEGMENT_SIZE),
         LAMBDA r :
            [s EXCEPT !.m_search_offset = r.m_search_offset,
                      !.m_data_offset =
                          IF r.m_search_offset > 0
                          THEN Align8(r.m_data_offset
                                        + DataSize(s.data[r.m_data_offset].key,
                                                   s.data[r.m_data_offset].value))
                          ELSE r.m_data_offset])

\* the shard is closed and opened again
ShardOpenStep ==
    /\ shard' = Open(shard)
    /\ shard_op' = [shard_op EXCEPT !.op = "open", !.rc = "SUCCESS"]
    /\ UNCHANGED <<diskVars, otherVars>>

NextOpen ==
    \/ \E key \in Keys, value \in Values :
           ShardPutStep(key, value, shard.m_search_offset + 1)
    \/ \E key \in Keys : ShardDelStep(key)
    \/ ShardOpenStep

SpecOpen == InitShard /\ [][NextOpen]_vars

\* open leaves the shard as it was: the two offsets, what get returns for
\* every key, and what the next put does
OpenRestores ==
    ShardOpenStep =>
        /\ shard'.m_search_offset = shard.m_search_offset
        /\ shard'.m_data_offset = shard.m_data_offset
        /\ \A key \in Keys :
              ShardGet(shard', KeyHash(key), key) = ShardGet(shard, KeyHash(key), key)
        /\ \A key \in Keys, value \in Values :
              ShardPut(shard', KeyHash(key), ValueHash(value), key, value, 1)
                = ShardPut(shard, KeyHash(key), ValueHash(value), key, value, 1)

\* C36 (open round trip): for a shard file made by any sequence of put and
\* del, also one that ends with a del, open restores m_search_offset and
\* m_data_offset to what they were after the last mutation, so that get
\* returns the same results and the next put appends at the same offset.
C36_OpenRoundTrip == [][OpenRestores]_vars


====
